---- MODULE Spec2Model ----
\* Verification model of the quarterly-data scraper (all code/Retrieval):
\*   Collect.get_chart            the scan -> scroll -> diff -> append loop
\*   Collect.collect_stock_info   the panel loop and the merges
\*   Tools / Remove               the overlay clearing around page interactions
EXTENDS Integers, Sequences, FiniteSets, TLC

VARIABLES
    pc,           \* position inside get_chart
    all_headers,  \* get_chart: accumulated header list
    all_data,     \* get_chart: accumulated rows
    attempts,     \* get_chart: completed scroll iterations
    drags,        \* number of drag_scrollbar calls made so far
    scans,        \* number of extract_grid_data calls made so far
    x_before,     \* get_chart: thumb position read before the drag
    x_after,      \* get_chart: thumb position read after the drag
    new_headers,  \* get_chart: the headers of the scan made after the last drag
    first_seen,   \* history: per accumulated header position, the column of the
                  \* snapshot in which it was first seen (one cell per snapshot row)
    seen_dates,   \* history: the date-like headers of all snapshots so far, each
                  \* once, in the order they were first seen
    cpc,          \* position inside collect_stock_info
    chart_i,      \* collect_stock_info: index of chart_title in self.charts
    combined_df,  \* collect_stock_info: the running unified table (or None)
    page,         \* the grid the page shows at the moment
    emp_df,       \* collect_stock_info: the employee table read for Other Metrics
    contributed,  \* history: the date texts of the ordinary panels merged so far
    gpc,          \* position of the run in click / quartely / get_chart
    gchart,       \* index of the panel being worked on in self.charts
    gnested,      \* click was called with nested=True
    gattempts,    \* get_chart: attempts, as far as the interactions need it
    clear_pc,     \* position inside the overlay clear in progress
    clear_log,    \* the sub-steps the current or last overlay clear has run
    close_clicks, \* the clicks close_ad_overlay made in that clear, in order
    cleared,      \* history: an overlay clear has completed and no page
                  \* interaction was made since
    last_op,      \* history: the last page interaction made
    last_guarded, \* history: the value of cleared when last_op was made
    mpc,          \* position of the main script in its loop over the stocks
    stock_i,      \* main: index of stock in stocks
    quarterly_file, \* per stock: its quarterly CSV is absent, has no row, or has rows
    daily_file,   \* per stock: its day-to-day CSV exists
    lld_s, \* looks_like_date: the characters of its argument s
    lld_called, \* looks_like_date has returned
    lld_ret, \* looks_like_date: the value returned
    qpc, \* position inside quartely
    qcall, \* number of the quartely call in progress or returned
    view, \* the option the frequency select of the page has selected
    view0, \* history: the option selected before the first call
    q_opens, \* history: clicks on the select2 dropdown
    q_selects, \* history: clicks on the Quarterly entry
    q_end, \* how the last quartely call ended
    rpc, \* position of the run: main's loop, search, click, get_chart, save
    r_stock, \* main: index of stock in stocks
    r_chart, \* collect_stock_info: index of chart_title in self.charts
    browser, \* the page the shared driver shows: whose page, and which tab of it
    r_table, \* history: per ordinary panel of the running table, the page its grid was scanned from
    r_saved, \* history: per stock, r_table as it was when the table was saved
    r_done, \* per stock: pending, skipped or saved
    kpc, \* StockCombiner.combine: position ("idle", "loop", "concat")
    k_stocks, \* self.stocks of the run under way
    k_i, \* index of the stock the loop of combine is at
    stock_id_map, \* self.stock_id_map
    max_id, \* self.max_id
    k_combined, \* the list combined_df of combine: the stock_id of each frame appended
    map_file, \* the JSON file at map_path: whether it exists and the map it holds
    k_loaded, \* the map load_id_map read at the start of the latest run
    npc, \* NewsSentiment.analyze: position ("idle", "loop", "returned")
    n_left, \* number of fetched articles the loop of analyze has yet to take
    total_score, \* total_score of analyze
    count, \* count of analyze
    sentiment_counts, \* sentiment_counts of analyze
    n_avg  \* the value analyze returns

getChartVars == <<pc, all_headers, all_data, attempts, drags, scans, x_before,
                  x_after, new_headers, first_seen, seen_dates>>
collectVars == <<cpc, chart_i, combined_df, page, emp_df, contributed>>
guardVars == <<gpc, gchart, gnested, gattempts, clear_pc, clear_log, close_clicks, cleared,
               last_op, last_guarded>>
mainVars == <<mpc, stock_i, quarterly_file, daily_file>>
dateVars == <<lld_s, lld_called, lld_ret>>
quarterVars == <<qpc, qcall, view, view0, q_opens, q_selects, q_end>>
runVars == <<rpc, r_stock, r_chart, browser, r_table, r_saved, r_done>>
combineVars == <<kpc, k_stocks, k_i, stock_id_map, max_id, k_combined, map_file, k_loaded>>
newsVars == <<npc, n_left, total_score, count, sentiment_counts, n_avg>>
vars == <<getChartVars, collectVars, guardVars, mainVars, dateVars, quarterVars, runVars, combineVars, newsVars>>

-----------------------------------------------------------------------------
\* Bounds of the model

\* get_chart's max_scroll_attempts (50 in the source), scaled down
max_scroll_attempts == 2
\* longest header list one scan returns
MaxCols == 2
\* most rows one scan returns
MaxRows == 1

-----------------------------------------------------------------------------
\* Strings.  TLC cannot look inside a string, so the characters of every
\* header text of the model are tabulated here.

Digits == {"0", "1", "2", "3", "4", "5", "6", "7", "8", "9"}

Chars(s) ==
    CASE s = "Metric" -> <<"M", "e", "t", "r", "i", "c">>
      [] s = "Revenue" -> <<"R", "e", "v", "e", "n", "u", "e">>
      [] s = "Margin" -> <<"M", "a", "r", "g", "i", "n">>
      [] s = "Financials" -> <<"F", "i", "n", "a", "n", "c", "i", "a", "l", "s">>
      [] s = "Balance Sheet" -> <<"B", "a", "l", "a", "n", "c", "e", " ", "S", "h", "e", "e", "t">>
      [] s = "Cash Flow Statement" -> <<"C", "a", "s", "h", " ", "F", "l", "o", "w", " ", "S", "t", "a", "t", "e", "m", "e", "n", "t">>
      [] s = "Key Financial Ratios" -> <<"K", "e", "y", " ", "F", "i", "n", "a", "n", "c", "i", "a", "l", " ", "R", "a", "t", "i", "o", "s">>
      [] s = "Other Metrics" -> <<"O", "t", "h", "e", "r", " ", "M", "e", "t", "r", "i", "c", "s">>
      [] s = "financials" -> <<"f", "i", "n", "a", "n", "c", "i", "a", "l", "s">>
      [] s = "balance_sheet" -> <<"b", "a", "l", "a", "n", "c", "e", "_", "s", "h", "e", "e", "t">>
      [] s = "cash_flow_statement" -> <<"c", "a", "s", "h", "_", "f", "l", "o", "w", "_", "s", "t", "a", "t", "e", "m", "e", "n", "t">>
      [] s = "key_financial_ratios" -> <<"k", "e", "y", "_", "f", "i", "n", "a", "n", "c", "i", "a", "l", "_", "r", "a", "t", "i", "o", "s">>
      [] s = "other_metrics" -> <<"o", "t", "h", "e", "r", "_", "m", "e", "t", "r", "i", "c", "s">>
      [] s = "$1,234.56" -> <<"$", "1", ",", "2", "3", "4", ".", "5", "6">>
      [] s = "1234.56" -> <<"1", "2", "3", "4", ".", "5", "6">>
      [] s = "56" -> <<"5", "6">>
      [] s = "-" -> <<"-">>
      [] s = "0" -> <<"0">>
      [] s = "100" -> <<"1", "0", "0">>
      [] s = "12%" -> <<"1", "2", "%">>
      [] s = "12" -> <<"1", "2">>
      [] s = "500" -> <<"5", "0", "0">>
      [] s = "N/A" -> <<"N", "/", "A">>
      [] s = "2021" -> <<"2", "0", "2", "1">>
      [] s = "2020" -> <<"2", "0", "2", "0">>
      [] s = "2021-03-01" -> <<"2", "0", "2", "1", "-", "0", "3", "-", "0", "1">>
      [] s = "2021-09-01" -> <<"2", "0", "2", "1", "-", "0", "9", "-", "0", "1">>
      [] s = "2020-09-01" -> <<"2", "0", "2", "0", "-", "0", "9", "-", "0", "1">>
      [] s = "2023-01-01" -> <<"2", "0", "2", "3", "-", "0", "1", "-", "0", "1">>
      [] s = "2023-04-01" -> <<"2", "0", "2", "3", "-", "0", "4", "-", "0", "1">>
      [] s = "2023-1-1" -> <<"2", "0", "2", "3", "-", "1", "-", "1">>
      [] s = "" -> <<>>

\* header texts the grid may show
HeaderUniverse == {"Metric", "2023-01-01", "2023-04-01"}

Range(s) == {s[i] : i \in DOMAIN s}

SeqsUpTo(S, n) == UNION {[1..k -> S] : k \in 0..n}

Max(a, b) == IF a >= b THEN a ELSE b

\* ScrollAndTools.looks_like_date: re.match(r'^\d{4}-\d{2}-\d{2}$', s).
\* Python's $ also matches just before a final newline.
MatchesDatePattern(c) ==
    LET body == /\ Len(c) >= 10
                /\ \A i \in {1, 2, 3, 4, 6, 7, 9, 10} : c[i] \in Digits
                /\ c[5] = "-"
                /\ c[8] = "-"
    IN  body /\ (Len(c) = 10 \/ (Len(c) = 11 /\ c[11] = "\n"))

looks_like_date(s) == MatchesDatePattern(Chars(s))

-----------------------------------------------------------------------------
\* The grid as the scanner reads it

\* text of the cell the k-th scan shows in row i, column j
Cell(k, i, j) == "s" \o ToString(k) \o "r" \o ToString(i) \o "c" \o ToString(j)

\* every header list one scan may return
HeaderLists == SeqsUpTo(HeaderUniverse, MaxCols)

\* row widths next to a header list of length n: one cell short, exact, one
\* cell long
RowWidths(n) == {w \in {n - 1, n, n + 1} : w >= 0}

\* Tools.extract_grid_data: whatever header spans and row cells the page
\* holds at the moment; nothing is checked or deduplicated.  The snapshot of
\* the k-th scan of a grid showing header list h and n rows of w cells.
extract_grid_data(k, h, n, w) ==
    [headers |-> h, rows |-> [i \in 1..n |-> [j \in 1..w |-> Cell(k, i, j)]]]

\* Tools.get_scrollbar_thumb_x: the thumb's x, or None when it is not found
\* None is modelled as -1, apart from every pixel offset
None == -1
ThumbPositions == {None, 0, 1}

\* the column a snapshot shows at header index idx: one cell per snapshot row
SnapshotColumn(snap, idx) ==
    [i \in 1..Len(snap.rows) |->
        IF idx <= Len(snap.rows[i]) THEN snap.rows[i][idx] ELSE ""]

-----------------------------------------------------------------------------
\* Collect.get_chart

\* only the first new date column of the scan is taken
first_new_date_col(scanned, headers) ==
    LET cols == SelectSeq(scanned, LAMBDA h : looks_like_date(h) /\ h \notin Range(headers))
    IN  IF cols = <<>> THEN <<>> ELSE <<cols[1]>>

\* new_date_cols = [h for h in new_headers if looks_like_date(h) and h not in all_headers]
new_cols_of_any_kind(scanned, headers) ==
    SelectSeq(scanned, LAMBDA h : h \notin Range(headers))
new_date_cols(scanned, headers) ==
    SelectSeq(scanned, LAMBDA h : looks_like_date(h) /\ h \notin Range(headers))

\* list.index: position of the first occurrence
IndexOf(s, h) == CHOOSE i \in 1..Len(s) : s[i] = h /\ \A j \in 1..(i - 1) : s[j] # h

\* new_indices = [new_headers.index(h) for h in new_date_cols]
new_indices(scanned, cols) == [k \in 1..Len(cols) |-> IndexOf(scanned, cols[k])]

\* row_data = [row[idx] if idx < len(row) else '' for idx in new_indices]
row_data(row, idxs) ==
    [k \in 1..Len(idxs) |-> IF idxs[k] <= Len(row) THEN row[idxs[k]] ELSE ""]

Blanks(n) == [k \in 1..n |-> ""]

\* the for-loop over new_data: extend the rows the snapshot covers, create
\* the rows beyond the known ones, leave every other row as it is
ExtendRows(data, headers, new_data, idxs) ==
    [i \in 1..Max(Len(data), Len(new_data)) |->
        IF i > Len(new_data) THEN data[i]
        ELSE IF i <= Len(data) THEN data[i] \o row_data(new_data[i], idxs)
        ELSE Blanks(Len(headers)) \o row_data(new_data[i], idxs)]

\* if x_after is None or x_after <= x_before: break
ScrollStoppedStrict(xb, xa) == xa = None \/ xa < xb
ScrollStopped(xb, xa) == xa = None \/ xa <= xb

\* if not new_date_cols: break
HasNewAlways(cols) == TRUE
HasNew(cols) == cols # <<>>

\* attempts += 1
NextAttemptsStuck(a) == a
NextAttempts(a) == a + 1

\* the final pass: pad short rows with blanks, truncate long rows
NormalizeRow(row, n) ==
    IF Len(row) < n THEN row \o Blanks(n - Len(row))
    ELSE IF Len(row) > n THEN SubSeq(row, 1, n)
    ELSE row

\* the date-like headers of one more snapshot put after those seen before
RECURSIVE AddSeen(_, _)
AddSeen(seen, headers) ==
    IF headers = <<>> THEN seen
    ELSE AddSeen(IF looks_like_date(Head(headers)) /\ Head(headers) \notin Range(seen)
                 THEN Append(seen, Head(headers)) ELSE seen,
                 Tail(headers))

\* get_chart touches nothing of collect_stock_info's state
GetChartFrame == UNCHANGED <<collectVars, guardVars, mainVars, dateVars, quarterVars, runVars, combineVars, newsVars>>

\* scroll_down, the wait for #jqxgrid, the first extract_grid_data
GetChartSeed ==
    /\ pc = "start"
    /\ \E h \in HeaderLists, n \in 0..MaxRows :
        \E w \in RowWidths(Len(h)) :
            LET snap == extract_grid_data(scans, h, n, w)
            IN  /\ all_headers' = snap.headers
                /\ all_data' = snap.rows
                /\ first_seen' =
                       [j \in 1..Len(snap.headers) |-> SnapshotColumn(snap, j)]
                /\ seen_dates' = AddSeen(<<>>, snap.headers)
    /\ scans' = scans + 1
    /\ pc' = "loop"
    /\ UNCHANGED <<attempts, drags, x_before, x_after, new_headers>>
    /\ GetChartFrame

\* WebDriverWait(driver, 20).until(presence of #jqxgrid) times out
GetChartGridTimeout ==
    /\ pc = "start"
    /\ pc' = "raised"
    /\ UNCHANGED <<all_headers, all_data, attempts, drags, scans, x_before, x_after,
                   new_headers, first_seen, seen_dates>>
    /\ GetChartFrame

\* while attempts < max_scroll_attempts: false
LoopBoundReached ==
    /\ pc = "loop"
    /\ ~(attempts < max_scroll_attempts)
    /\ pc' = "normalize"
    /\ UNCHANGED <<all_headers, all_data, attempts, drags, scans, x_before, x_after,
                   new_headers, first_seen, seen_dates>>
    /\ GetChartFrame

\* x_before is None: break before any drag
NoScrollbar ==
    /\ pc = "loop"
    /\ attempts < max_scroll_attempts
    /\ x_before' = None
    /\ pc' = "normalize"
    /\ UNCHANGED <<all_headers, all_data, attempts, drags, scans, x_after,
                   new_headers, first_seen, seen_dates>>
    /\ GetChartFrame

\* scrolled = drag_scrollbar(100) (scrolled is never read), then
\* x_after is None or x_after <= x_before: break
ScrollStalled ==
    /\ pc = "loop"
    /\ attempts < max_scroll_attempts
    /\ \E xb \in ThumbPositions \ {None}, xa \in ThumbPositions :
          /\ ScrollStopped(xb, xa)
          /\ x_before' = xb
          /\ x_after' = xa
    /\ drags' = drags + 1
    /\ pc' = "normalize"
    /\ UNCHANGED <<all_headers, all_data, attempts, scans, new_headers, first_seen, seen_dates>>
    /\ GetChartFrame

\* drag_scrollbar(100), then x_after > x_before: go on to the scan
ScrollMoved ==
    /\ pc = "loop"
    /\ attempts < max_scroll_attempts
    /\ \E xb \in ThumbPositions \ {None}, xa \in ThumbPositions :
          /\ ~ScrollStopped(xb, xa)
          /\ x_before' = xb
          /\ x_after' = xa
    /\ drags' = drags + 1
    /\ pc' = "scan"
    /\ UNCHANGED <<all_headers, all_data, attempts, scans, new_headers, first_seen, seen_dates>>
    /\ GetChartFrame

\* the scan after a movement shows no new date column: break
ScanNothingNew ==
    /\ pc = "scan"
    /\ \E h \in HeaderLists :
          /\ ~HasNew(new_date_cols(h, all_headers))
          /\ new_headers' = h
          /\ seen_dates' = AddSeen(seen_dates, h)
    /\ scans' = scans + 1
    /\ pc' = "normalize"
    /\ UNCHANGED <<all_headers, all_data, attempts, drags, x_before, x_after,
                   first_seen>>
    /\ GetChartFrame

\* the scan after a movement shows new date columns: append them
ScanAppend ==
    /\ pc = "scan"
    /\ \E h \in HeaderLists, n \in 0..MaxRows :
        \E w \in RowWidths(Len(h)) :
            LET snap == extract_grid_data(scans, h, n, w)
                cols == new_date_cols(snap.headers, all_headers)
                idxs == new_indices(snap.headers, cols)
            IN  /\ HasNew(cols)
                /\ new_headers' = snap.headers
                /\ all_data' = ExtendRows(all_data, all_headers, snap.rows, idxs)
                /\ all_headers' = all_headers \o cols
                /\ first_seen' = first_seen \o
                       [k \in 1..Len(cols) |-> SnapshotColumn(snap, idxs[k])]
                /\ seen_dates' = AddSeen(seen_dates, snap.headers)
    /\ attempts' = NextAttempts(attempts)
    /\ scans' = scans + 1
    /\ pc' = "loop"
    /\ UNCHANGED <<drags, x_before, x_after>>
    /\ GetChartFrame

\* the loop after the while: every row to len(all_headers), then return;
\* the locals that are not part of the returned table end with the call
Normalize ==
    /\ pc = "normalize"
    /\ all_data' = [i \in 1..Len(all_data) |-> NormalizeRow(all_data[i], Len(all_headers))]
    /\ pc' = "done"
    /\ x_before' = None
    /\ x_after' = None
    /\ new_headers' = <<>>
    /\ UNCHANGED <<all_headers, attempts, drags, scans, first_seen, seen_dates>>
    /\ GetChartFrame

-----------------------------------------------------------------------------
\* Texts and cells of the tables collect_stock_info works on

\* every text of the model; Text is the inverse of Chars on it
AllTexts ==
    {"Financials", "Balance Sheet", "Cash Flow Statement",
     "Key Financial Ratios", "Other Metrics",
     "financials", "balance_sheet", "cash_flow_statement",
     "key_financial_ratios", "other_metrics",
     "", "Metric", "Revenue", "Margin", "$1,234.56", "1234.56", "56", "-", "0", "100", "12%", "12", "500", "N/A",
     "2021", "2020", "2021-03-01", "2021-09-01", "2020-09-01",
     "2023-01-01", "2023-04-01", "2023-1-1"}

Text(c) == CHOOSE s \in AllTexts : Chars(s) = c

DigitVal(ch) ==
    CASE ch = "0" -> 0 [] ch = "1" -> 1 [] ch = "2" -> 2 [] ch = "3" -> 3
      [] ch = "4" -> 4 [] ch = "5" -> 5 [] ch = "6" -> 6 [] ch = "7" -> 7
      [] ch = "8" -> 8 [] ch = "9" -> 9

IsDigits(c) == Len(c) > 0 /\ \A i \in DOMAIN c : c[i] \in Digits

RECURSIVE DigitsValue(_)
DigitsValue(c) ==
    IF c = <<>> THEN 0
    ELSE DigitsValue(SubSeq(c, 1, Len(c) - 1)) * 10 + DigitVal(c[Len(c)])

\* a DataFrame cell: a string, a number, NaN, a timestamp or NaT
Str(s) == [k |-> "str", s |-> s, n |-> 0]
Num(n) == [k |-> "num", s |-> "", n |-> n]
\* a number with decimals: n is its integer part, f the digits after the point
NumF(n, f) == [k |-> "num", s |-> f, n |-> n]
NaN == [k |-> "nan", s |-> "", n |-> 0]
Dt(n) == [k |-> "date", s |-> "", n |-> n]
NaT == [k |-> "nat", s |-> "", n |-> 0]

\* a DataFrame: column names and rows of cells; None is NoDf
Df(cols, rows) == [is_none |-> FALSE, cols |-> cols, rows |-> rows]
NoDf == [is_none |-> TRUE, cols |-> <<>>, rows |-> <<>>]

\* position of the decimal point in a text, 0 when it has none
PointAt(c) ==
    IF \E i \in DOMAIN c : c[i] = "."
    THEN CHOOSE i \in DOMAIN c : c[i] = "." /\ \A j \in 1..(i - 1) : c[j] # "."
    ELSE 0

\* the text before the decimal point, and the digits after it
WholePart(c) == IF PointAt(c) = 0 THEN c ELSE SubSeq(c, 1, PointAt(c) - 1)
FractionPart(c) == IF PointAt(c) = 0 THEN <<>> ELSE SubSeq(c, PointAt(c) + 1, Len(c))

\* optional sign, then digits
IsIntegerText(c) ==
    \/ IsDigits(c)
    \/ Len(c) > 1 /\ c[1] = "-" /\ IsDigits(Tail(c))

\* int(text) / pd.to_numeric on one text: optional sign, digits, and
\* optionally a point followed by digits
IsNumberText(c) ==
    /\ IsIntegerText(WholePart(c))
    /\ PointAt(c) # 0 => IsDigits(FractionPart(c))

NumberValue(c) ==
    LET w == WholePart(c)
    IN  IF w[1] = "-" THEN 0 - DigitsValue(Tail(w)) ELSE DigitsValue(w)

\* pd.to_numeric of one cell; a cell that cannot be parsed gives NaN
to_numeric(cell) ==
    IF cell.k = "num" THEN cell
    ELSE IF cell.k = "str" /\ IsNumberText(Chars(cell.s))
         THEN NumF(NumberValue(Chars(cell.s)), Text(FractionPart(Chars(cell.s))))
    ELSE NaN

\* pd.to_datetime(..., errors='coerce') of one cell: an ISO date text gives
\* its timestamp (as yyyymmdd), a timestamp stays, anything else gives NaT
to_datetime(cell) ==
    IF cell.k = "date" THEN cell
    ELSE IF cell.k = "str" /\ looks_like_date(cell.s) /\ Len(Chars(cell.s)) = 10
         THEN LET c == Chars(cell.s)
              IN  Dt(DigitsValue(SubSeq(c, 1, 4)) * 10000
                     + DigitsValue(SubSeq(c, 6, 7)) * 100
                     + DigitsValue(SubSeq(c, 9, 10)))
    ELSE NaT

\* .dt.year.fillna(0).astype(int)
YearOf(cell) == IF cell.k = "date" THEN cell.n \div 10000 ELSE 0

\* the text left as it is
KeepSymbols(s) == s

\* str.replace("$", "").replace(",", "").replace("%", "")
StripSymbols(s) ==
    Text(SelectSeq(Chars(s), LAMBDA ch : ch \notin {"$", ",", "%"}))

-----------------------------------------------------------------------------
\* The page as collect_stock_info finds it

\* self.charts
charts ==
    <<"Financials", "Balance Sheet", "Cash Flow Statement",
      "Key Financial Ratios", "Other Metrics">>

UpperLetters ==
    <<"A", "B", "C", "D", "E", "F", "G", "H", "I", "J", "K", "L", "M",
      "N", "O", "P", "Q", "R", "S", "T", "U", "V", "W", "X", "Y", "Z">>
LowerLetters ==
    <<"a", "b", "c", "d", "e", "f", "g", "h", "i", "j", "k", "l", "m",
      "n", "o", "p", "q", "r", "s", "t", "u", "v", "w", "x", "y", "z">>

\* str.lower() on one character
Lower(ch) ==
    IF \E i \in DOMAIN UpperLetters : UpperLetters[i] = ch
    THEN LowerLetters[CHOOSE i \in DOMAIN UpperLetters : UpperLetters[i] = ch]
    ELSE ch

\* str.replace("__", "_"): left to right, occurrences do not overlap
RECURSIVE ReplaceDoubleUnderscore(_)
ReplaceDoubleUnderscore(c) ==
    IF Len(c) < 2 THEN c
    ELSE IF c[1] = "_" /\ c[2] = "_"
         THEN <<"_">> \o ReplaceDoubleUnderscore(SubSeq(c, 3, Len(c)))
    ELSE <<c[1]>> \o ReplaceDoubleUnderscore(Tail(c))

\* every panel takes the first title as its prefix
PrefixOfFirstPanel(chart_title) == "financials"

\* chart_title.lower().replace(" ", "_").replace("__", "_")
Prefix(chart_title) ==
    LET lowered == [i \in DOMAIN Chars(chart_title) |-> Lower(Chars(chart_title)[i])]
        underscored == [i \in DOMAIN lowered |->
                           IF lowered[i] = " " THEN "_" ELSE lowered[i]]
    IN  Text(ReplaceDoubleUnderscore(underscored))

\* most date columns one panel's grid shows
MaxPanelDates == 2
\* most rows the employee table shows
MaxEmpRows == 2

\* the date headers a grid may show, and what a grid shows under each
DateTexts == {"2020-09-01", "2021-03-01", "2021-09-01"}
PageCellText(d) ==
    CASE d = "2020-09-01" -> "12%"
      [] d = "2021-03-01" -> "-"
      [] d = "2021-09-01" -> "$1,234.56"
\* and under each in a second metric row
MarginCellText(d) ==
    CASE d = "2020-09-01" -> "N/A"
      [] d = "2021-03-01" -> "100"
      [] d = "2021-09-01" -> "100"

\* the date headers of one grid, each date once, in any order
PanelDateLists ==
    {ds \in SeqsUpTo(DateTexts, MaxPanelDates) :
        \A i, j \in DOMAIN ds : i # j => ds[i] # ds[j]}

\* what get_chart returns for a grid: no #jqxgrid at all, a grid without
\* header cells and rows, or the label column followed by date columns with
\* two metric rows or with no row
NoGrid == [grid |-> FALSE, headers |-> <<>>, rows |-> <<>>]
EmptyGrid == [grid |-> TRUE, headers |-> <<>>, rows |-> <<>>]
GridOf(ds) ==
    [grid |-> TRUE,
     headers |-> <<"Metric">> \o ds,
     rows |-> << <<"Revenue">> \o [j \in 1..Len(ds) |-> PageCellText(ds[j])],
                 <<"Margin">> \o [j \in 1..Len(ds) |-> MarginCellText(ds[j])] >>]
\* a grid that shows its header cells and no row
ZeroRowGrid(ds) == [grid |-> TRUE, headers |-> <<"Metric">> \o ds, rows |-> <<>>]
PageGrids ==
    {NoGrid, EmptyGrid} \cup {GridOf(ds) : ds \in PanelDateLists}
        \cup {ZeroRowGrid(ds) : ds \in {l \in PanelDateLists : Len(l) <= 1}}

\* the rows of table.historical_data_table: two cells each, year and count
EmployeeCells ==
    {<<"2021", "500">>, <<"2021", "N/A">>, <<"2020", "500">>, <<"2021", "12%">>}
EmployeePages == SeqsUpTo(EmployeeCells, MaxEmpRows)

-----------------------------------------------------------------------------
\* Collect.extract_employee_table_to_df

\* cols[1].text.strip().replace(',', '')
StripCommas(s) == Text(SelectSeq(Chars(s), LAMBDA ch : ch # ","))

\* "Employees": 0 if employees == 'N/A' else int(employees)
EmployeeCount(text) ==
    IF text = "N/A" THEN 0 ELSE NumberValue(Chars(StripCommas(text)))

\* one record per two-cell row; any exception gives the empty DataFrame
extract_employee_table_to_df(rows) ==
    IF \E i \in DOMAIN rows :
           \/ ~IsIntegerText(Chars(rows[i][1]))
           \/ rows[i][2] # "N/A" /\ ~IsIntegerText(Chars(StripCommas(rows[i][2])))
    THEN <<>>
    ELSE [i \in DOMAIN rows |->
             [Year |-> NumberValue(Chars(rows[i][1])),
              Employees |-> EmployeeCount(rows[i][2])]]

-----------------------------------------------------------------------------
\* The ordinary panels: clean, transpose, prefix, merge

\* df.replace("-", 0), then the symbols stripped from every string
CleanCell(text) == IF text = "-" THEN Num(0) ELSE Str(StripSymbols(text))

\* df.apply(pd.to_numeric, errors='ignore'): a column is converted only when
\* every cell of it converts
CleanWide(rows, ncols) ==
    LET cleaned == [i \in DOMAIN rows |-> [j \in 1..ncols |-> CleanCell(rows[i][j])]]
        converts(j) == \A i \in DOMAIN rows : to_numeric(cleaned[i][j]).k = "num"
    IN  [i \in DOMAIN rows |->
            [j \in 1..ncols |->
                IF converts(j) THEN to_numeric(cleaned[i][j]) ELSE cleaned[i][j]]]

\* f"{prefix}_{x}"
PrefixedName(prefix, label) == prefix \o "_" \o label.s

\* df.set_index(df.columns[0]).T.reset_index(), "index" renamed Date, the
\* other columns prefixed
Transposed(grid, prefix) ==
    LET n == Len(grid.headers)
        wide == CleanWide(grid.rows, n)
    IN  Df(<<"Date">> \o [i \in DOMAIN wide |-> PrefixedName(prefix, wide[i][1])],
           [j \in 1..(n - 1) |->
               <<Str(grid.headers[j + 1])>> \o [i \in DOMAIN wide |-> wide[i][j + 1]]])

\* the order of the merge keys: Date texts, which sort as their dates do
KeyLess(a, b) == to_datetime(a).n < to_datetime(b).n

RECURSIVE SortedKeys(_)
SortedKeys(S) ==
    IF S = {} THEN <<>>
    ELSE LET m == CHOOSE x \in S : \A y \in S \ {x} : KeyLess(x, y)
         IN  <<m>> \o SortedKeys(S \ {m})

RECURSIVE Flatten(_)
Flatten(ss) == IF ss = <<>> THEN <<>> ELSE Head(ss) \o Flatten(Tail(ss))

NaNs(n) == [k \in 1..n |-> NaN]

\* the rows of df whose Date is key, without the Date cell; one row of NaN
\* when there is none
SideRows(df, key) ==
    LET hit == SelectSeq(df.rows, LAMBDA r : r[1] = key)
    IN  IF hit = <<>> THEN <<NaNs(Len(df.cols) - 1)>>
        ELSE [i \in DOMAIN hit |-> Tail(hit[i])]

\* pd.merge(left, right, on="Date", how="outer"): the union of the keys,
\* sorted; per key every pairing of a left row with a right row
OuterMerge(left, right) ==
    LET keys == SortedKeys({r[1] : r \in Range(left.rows) \cup Range(right.rows)})
        rowsOf(key) ==
            LET ls == SideRows(left, key)
                rs == SideRows(right, key)
            IN  Flatten([i \in DOMAIN ls |->
                    [j \in DOMAIN rs |-> <<key>> \o ls[i] \o rs[j]]])
        \* a column name both sides have gets the suffixes "_x" and "_y"
        lcols == [i \in DOMAIN left.cols |->
                     IF i > 1 /\ left.cols[i] \in Range(Tail(right.cols))
                     THEN left.cols[i] \o "_x" ELSE left.cols[i]]
        rcols == [i \in DOMAIN Tail(right.cols) |->
                     IF right.cols[i + 1] \in Range(Tail(left.cols))
                     THEN right.cols[i + 1] \o "_y" ELSE right.cols[i + 1]]
    IN  Df(lcols \o rcols,
           Flatten([k \in DOMAIN keys |-> rowsOf(keys[k])]))

-----------------------------------------------------------------------------
\* Other Metrics: the employee merge

\* combined_df.iloc[1:]
DropFirstRow(rows) == IF rows = <<>> THEN <<>> ELSE Tail(rows)

\* combined_df.merge(df[['Year', 'Employees']], how='left', on='Year') and the
\* drop of Year: the left rows in their order, each once per employee row
\* of its year, with NaN when the year is not listed
LeftMergeByPosition(rows, emp) ==
    [i \in DOMAIN rows |->
        rows[i] \o <<IF i <= Len(emp) THEN Num(emp[i].Employees) ELSE NaN>>]
LeftMergeOnYear(rows, emp) ==
    Flatten([i \in DOMAIN rows |->
        LET hit == SelectSeq(emp, LAMBDA e : e.Year = YearOf(rows[i][1]))
        IN  IF hit = <<>> THEN <<rows[i] \o <<NaN>>>>
            ELSE [j \in DOMAIN hit |-> rows[i] \o <<Num(hit[j].Employees)>>]])

\* lines 185-197
MergeEmployees(df, emp) ==
    LET dated == [i \in DOMAIN df.rows |->
                     <<to_datetime(df.rows[i][1])>> \o Tail(df.rows[i])]
    IN  Df(df.cols \o <<"Employees">>, LeftMergeOnYear(DropFirstRow(dated), emp))

-----------------------------------------------------------------------------
\* The end of collect_stock_info: sort, clean, save

\* the descending order, sort_values(ascending=False)
DateAfter(a, b) == a.k = "date" /\ (b.k # "date" \/ a.n > b.n)
\* sort_values(by="Date"): ascending, NaT last
DateBefore(a, b) == a.k = "date" /\ (b.k # "date" \/ a.n < b.n)

RECURSIVE SortByDate(_)
SortByDate(rows) ==
    IF rows = <<>> THEN <<>>
    ELSE LET i == CHOOSE i \in DOMAIN rows :
                      /\ \A j \in DOMAIN rows : ~DateBefore(rows[j][1], rows[i][1])
                      /\ \A j \in 1..(i - 1) : DateBefore(rows[i][1], rows[j][1])
         IN  <<rows[i]>> \o
             SortByDate(SubSeq(rows, 1, i - 1) \o SubSeq(rows, i + 1, Len(rows)))

\* str(x) of a number
RECURSIVE NumberDigits(_)
NumberDigits(n) ==
    LET d == CHOOSE ch \in Digits : DigitVal(ch) = n % 10
    IN  IF n < 10 THEN <<d>> ELSE NumberDigits(n \div 10) \o <<d>>

NumberText(n) == IF n < 0 THEN <<"-">> \o NumberDigits(0 - n) ELSE NumberDigits(n)

\* replace("-", 0); astype(str); the symbols removed; to_numeric with
\* errors="coerce"; fillna(0)
FinalCell(cell) ==
    LET c == IF cell.k = "num" /\ cell.s = "" THEN NumberText(cell.n)
             ELSE IF cell.k = "num" THEN NumberText(cell.n) \o <<".">> \o Chars(cell.s)
             ELSE IF cell.k = "str" /\ cell.s # "-" THEN Chars(StripSymbols(cell.s))
             ELSE IF cell.k = "str" THEN <<"0">>
             ELSE <<"n", "a", "n">>
    IN  IF IsNumberText(c) THEN NumF(NumberValue(c), Text(FractionPart(c))) ELSE Num(0)

FinalTable(df) ==
    LET dated == [i \in DOMAIN df.rows |->
                     <<to_datetime(df.rows[i][1])>> \o Tail(df.rows[i])]
        sorted == SortByDate(dated)
    IN  Df(df.cols,
           [i \in DOMAIN sorted |->
               <<sorted[i][1]>> \o
               [j \in 1..(Len(sorted[i]) - 1) |-> FinalCell(sorted[i][j + 1])]])

-----------------------------------------------------------------------------
\* Collect.collect_stock_info

CollectFrame == UNCHANGED <<getChartVars, guardVars, mainVars, dateVars, quarterVars, runVars, combineVars, newsVars>>

\* self.tools.search(name): the page it leaves shows some grid, or none
CollectSearch ==
    /\ cpc = "search"
    /\ page' \in PageGrids
    /\ cpc' = "select"
    /\ UNCHANGED <<chart_i, combined_df, emp_df, contributed>>
    /\ CollectFrame

\* click(chart_title) and quartely() went through: the panel's own grid
SelectPanel ==
    /\ cpc = "select"
    /\ charts[chart_i] # "Other Metrics"
    /\ page' \in PageGrids
    /\ cpc' = "extract"
    /\ UNCHANGED <<chart_i, combined_df, emp_df, contributed>>
    /\ CollectFrame

\* click(chart_title) failed (the exception is swallowed inside click) and
\* quartely() changed nothing: the page still shows what it showed
SelectPanelFailed ==
    /\ cpc = "select"
    /\ charts[chart_i] # "Other Metrics"
    /\ cpc' = "extract"
    /\ UNCHANGED <<chart_i, combined_df, page, emp_df, contributed>>
    /\ CollectFrame

\* get_chart raises: the wait for #jqxgrid times out (line 305)
PanelGridTimeout ==
    /\ cpc = "extract"
    /\ ~page.grid
    /\ cpc' = "raised"
    /\ UNCHANGED <<chart_i, combined_df, page, emp_df, contributed>>
    /\ CollectFrame

\* df.columns[0] raises IndexError on a table without columns (line 219)
PanelNoColumns ==
    /\ cpc = "extract"
    /\ page.grid
    /\ page.headers = <<>>
    /\ cpc' = "raised"
    /\ UNCHANGED <<chart_i, combined_df, page, emp_df, contributed>>
    /\ CollectFrame

\* lines 209-230: the table of get_chart cleaned, transposed, prefixed and
\* merged into combined_df
PanelMerge ==
    /\ cpc = "extract"
    /\ page.grid
    /\ page.headers # <<>>
    /\ LET df_t == Transposed(page, Prefix(charts[chart_i]))
       IN  combined_df' = IF combined_df.is_none THEN df_t
                          ELSE OuterMerge(combined_df, df_t)
    /\ contributed' = contributed \cup Range(Tail(page.headers))
    /\ chart_i' = chart_i + 1
    /\ cpc' = "select"
    /\ UNCHANGED <<page, emp_df>>
    /\ CollectFrame

\* the merge made whatever the employee table holds
WithEmployeesUnchecked(df, emp) ==
    IF ~df.is_none /\ "Date" \in Range(df.cols) THEN MergeEmployees(df, emp) ELSE df

\* lines 176-201: if not df.empty, and combined_df has a Date column, the
\* merge; else a warning and combined_df as it was
WithEmployees(df, emp) ==
    IF emp # <<>> /\ ~df.is_none /\ "Date" \in Range(df.cols)
    THEN MergeEmployees(df, emp)
    ELSE df

\* lines 166-201: the employee table read (find_elements raising gives the
\* empty table) and merged by Year
OtherMetrics ==
    /\ cpc = "select"
    /\ charts[chart_i] = "Other Metrics"
    /\ \E df \in {<<>>} \cup {extract_employee_table_to_df(rows) : rows \in EmployeePages} :
          /\ emp_df' = df
          /\ combined_df' = WithEmployees(combined_df, df)
    /\ chart_i' = chart_i + 1
    /\ cpc' = "finish"
    /\ UNCHANGED <<page, contributed>>
    /\ CollectFrame

\* lines 233-257: the table sorted, cleaned and saved, or "No data collected."
Finish ==
    /\ cpc = "finish"
    /\ IF combined_df.is_none
       THEN cpc' = "nodata" /\ UNCHANGED combined_df
       ELSE cpc' = "saved" /\ combined_df' = FinalTable(combined_df)
    /\ UNCHANGED <<chart_i, page, emp_df, contributed>>
    /\ CollectFrame

\* outside collect_stock_info
CollectIdle ==
    /\ cpc = "idle"
    /\ chart_i = 1
    /\ combined_df = NoDf
    /\ page = NoGrid
    /\ emp_df = <<>>
    /\ contributed = {}

\* outside get_chart
GetChartIdle ==
    /\ pc = "idle"
    /\ all_headers = <<>>
    /\ all_data = <<>>
    /\ attempts = 0
    /\ drags = 0
    /\ scans = 0
    /\ x_before = None
    /\ x_after = None
    /\ new_headers = <<>>
    /\ first_seen = <<>>
    /\ seen_dates = <<>>

\* outside click, quartely and the overlay clear
GuardIdle ==
    /\ gpc = "idle"
    /\ gchart = 1
    /\ gnested = FALSE
    /\ gattempts = 0
    /\ clear_pc = "idle"
    /\ clear_log = <<>>
    /\ close_clicks = <<>>
    /\ cleared = FALSE
    /\ last_op = "none"
    /\ last_guarded = FALSE

\* main.py, line 15
stocks == <<"Nvidia", "AMC", "Apple">>

\* outside the main script: no file is looked at
MainIdle ==
    /\ mpc = "idle"
    /\ stock_i = 1
    /\ quarterly_file = [i \in DOMAIN stocks |-> "none"]
    /\ daily_file = [i \in DOMAIN stocks |-> FALSE]

\* looks_like_date is not being called
DateIdle ==
    /\ lld_s = <<>>
    /\ lld_called = FALSE
    /\ lld_ret = FALSE

DateFrame == UNCHANGED <<getChartVars, collectVars, guardVars, mainVars, quarterVars, runVars, combineVars, newsVars>>

\* outside quartely
QuarterIdle ==
    /\ qpc = "idle"
    /\ qcall = 0
    /\ view = [value |-> "A", text |-> "Annual"]
    /\ view0 = [value |-> "A", text |-> "Annual"]
    /\ q_opens = 0
    /\ q_selects = 0
    /\ q_end = "none"

QuarterFrame == UNCHANGED <<getChartVars, collectVars, guardVars, mainVars, dateVars, runVars, combineVars, newsVars>>

\* the run over the stocks has not started
RunIdle ==
    /\ rpc = "idle"
    /\ r_stock = 1
    /\ r_chart = 1
    /\ browser = [owner |-> 0, tab |-> 0]
    /\ r_table = [p \in 1..4 |-> [owner |-> -1, tab |-> -1]]
    /\ r_saved = [s \in DOMAIN stocks |-> [p \in 1..4 |-> [owner |-> -1, tab |-> -1]]]
    /\ r_done = [s \in DOMAIN stocks |-> "pending"]

RunFrame == UNCHANGED <<getChartVars, collectVars, guardVars, mainVars, dateVars, quarterVars, combineVars, newsVars>>

\* StockCombiner is not running (the other specifications)
CombineIdle ==
    /\ kpc = "idle"
    /\ k_stocks = <<>>
    /\ k_i = 0
    /\ stock_id_map = [n \in {} |-> 0]
    /\ max_id = -1
    /\ k_combined = <<>>
    /\ map_file = [exists |-> FALSE, content |-> [n \in {} |-> 0]]
    /\ k_loaded = [n \in {} |-> 0]

CombineFrame == UNCHANGED <<getChartVars, collectVars, guardVars, mainVars, dateVars, quarterVars, runVars, newsVars>>

\* NewsSentiment.analyze is not running (the other specifications)
NewsIdle ==
    /\ npc = "idle"
    /\ n_left = 0
    /\ total_score = 0
    /\ count = 0
    /\ sentiment_counts = [k \in {"Strongly Negative", "Negative", "Neutral", "Positive", "Strongly Positive"} |-> 0]
    /\ n_avg = 0

NewsFrame == UNCHANGED <<getChartVars, collectVars, guardVars, mainVars, dateVars, quarterVars, runVars, combineVars>>

InitCollect ==
    /\ NewsIdle
    /\ CombineIdle
    /\ RunIdle
    /\ QuarterIdle
    /\ DateIdle
    /\ GetChartIdle
    /\ GuardIdle
    /\ MainIdle
    /\ cpc = "search"
    /\ chart_i = 1
    /\ combined_df = NoDf
    /\ page = NoGrid
    /\ emp_df = <<>>
    /\ contributed = {}

NextCollect ==
    \/ CollectSearch
    \/ SelectPanel
    \/ SelectPanelFailed
    \/ PanelGridTimeout
    \/ PanelNoColumns
    \/ PanelMerge
    \/ OtherMetrics
    \/ Finish

SpecCollect == InitCollect /\ [][NextCollect]_vars

Init ==
    /\ NewsIdle
    /\ CombineIdle
    /\ RunIdle
    /\ QuarterIdle
    /\ DateIdle
    /\ pc = "start"
    /\ all_headers = <<>>
    /\ all_data = <<>>
    /\ attempts = 0
    /\ drags = 0
    /\ scans = 0
    /\ x_before = None
    /\ x_after = None
    /\ new_headers = <<>>
    /\ first_seen = <<>>
    /\ seen_dates = <<>>
    /\ CollectIdle
    /\ GuardIdle
    /\ MainIdle

Next ==
    \/ GetChartSeed
    \/ GetChartGridTimeout
    \/ LoopBoundReached
    \/ NoScrollbar
    \/ ScrollStalled
    \/ ScrollMoved
    \/ ScanNothingNew
    \/ ScanAppend
    \/ Normalize

Spec == Init /\ [][Next]_vars

-----------------------------------------------------------------------------
\* Tools.click, Tools.quartely, Tools.ensure_ads_removed and Remove: the page
\* interactions of one run over self.charts and the overlay clears around them

GuardFrame == UNCHANGED <<getChartVars, collectVars, mainVars, dateVars, quarterVars, runVars, combineVars, newsVars>>

\* the interactions with the page made for a panel.  The two clicks of
\* quartely (dropdown, option) are one frequency selection; the
\* scrollIntoView of click moves the viewport to the tab it is about to click
\* and is not counted as an interaction of its own.
Interactions ==
    {"tab_click", "nested_tab_click", "frequency_select", "page_scroll",
     "drag", "scan"}

\* a page interaction is made: remember whether an overlay clear has
\* completed since the one before
Interact(kind) ==
    /\ last_op' = kind
    /\ last_guarded' = cleared
    /\ cleared' = FALSE

\* the statements from which ensure_ads_removed is called
ClearCallSites == {"click_pre", "click_post", "q_pre", "q_post"}

\* where the caller goes on when the clear has returned
AfterClearReturned(p) ==
    CASE p = "click_pre" -> "click_find"
      [] p = "click_post" -> "click_ret"
      [] p = "q_pre" -> "q_read"
      [] p = "q_post" -> "q_ret"
      [] OTHER -> "api_returned"

\* where the caller goes on when the clear has raised: the except clause of
\* click and of quartely ends the call; force_clear_all_obstructions has no
\* caller in the program, the exception leaves it
AfterClearRaised(p) ==
    CASE p \in {"click_pre", "click_post"} -> "click_ret"
      [] p \in {"q_pre", "q_post"} -> "q_ret"
      [] OTHER -> "api_raised"

AfterClearUnchecked(p, outcome) == AfterClearReturned(p)
AfterClear(p, outcome) ==
    IF outcome = "raised" THEN AfterClearRaised(p) ELSE AfterClearReturned(p)

\* collect_stock_info enters its loop over self.charts
BeginPanels ==
    /\ gpc = "start"
    /\ gpc' = "click_pre"
    /\ UNCHANGED <<gchart, gnested, gattempts, clear_pc, clear_log, close_clicks, cleared,
                   last_op, last_guarded>>
    /\ GuardFrame

\* Remove.force_clear_all_obstructions is called
force_clear_all_obstructions ==
    /\ gpc = "start"
    /\ gpc' = "force"
    /\ clear_pc' = "close"
    /\ clear_log' = <<>>
    /\ close_clicks' = <<>>
    /\ UNCHANGED <<gchart, gnested, gattempts, cleared, last_op, last_guarded>>
    /\ GuardFrame

\* Tools.ensure_ads_removed is called
ensure_ads_removed ==
    /\ gpc \in ClearCallSites
    /\ clear_pc = "idle"
    /\ clear_pc' = "close"
    /\ clear_log' = <<>>
    /\ close_clicks' = <<>>
    /\ UNCHANGED <<gpc, gchart, gnested, gattempts, cleared, last_op, last_guarded>>
    /\ GuardFrame

\* most overlay elements find_elements returns
MaxOverlays == 2

\* one overlay element: is_displayed() gives True or False or raises; its
\* close button is looked up by text and by class, and each look-up finds
\* none, a button whose click works, or a button whose click raises
Overlays ==
    {[displayed |-> "no", text |-> "none", class |-> "none"],
     [displayed |-> "raises", text |-> "none", class |-> "none"]}
        \cup [displayed : {"yes"}, text : {"none", "clicks", "raises"},
                                  class : {"none", "clicks", "raises"}]
OverlayLists == SeqsUpTo(Overlays, MaxOverlays)

\* one close_btn.click(): on which overlay, found how, and whether it worked
Click(i, by, ok) == [overlay |-> i, by |-> by, ok |-> ok]

\* the loop keeps going after a click that worked
RECURSIVE CloseEveryOverlay(_, _, _)
CloseEveryOverlay(overlays, i, clicks) ==
    IF i > Len(overlays)
    THEN [how |-> IF clicks = <<>> THEN "close_none" ELSE "close_text", clicks |-> clicks]
    ELSE CloseEveryOverlay(overlays, i + 1,
             IF overlays[i].text = "clicks" THEN Append(clicks, Click(i, "text", TRUE))
             ELSE IF overlays[i].class = "clicks" THEN Append(clicks, Click(i, "class", TRUE))
             ELSE clicks)

\* lines 23-49 from overlay i on: the first displayed overlay with a button
\* whose click works is clicked and the function returns; line 51: an
\* exception outside the inner try blocks ends the function
RECURSIVE CloseFrom(_, _, _)
CloseFrom(overlays, i, clicks) ==
    IF i > Len(overlays) THEN [how |-> "close_none", clicks |-> clicks]
    ELSE LET o == overlays[i]
             afterText == IF o.text = "raises"
                          THEN Append(clicks, Click(i, "text", FALSE)) ELSE clicks
             afterClass == IF o.class = "raises"
                           THEN Append(afterText, Click(i, "class", FALSE)) ELSE afterText
         IN  IF o.displayed = "raises" THEN [how |-> "close_error", clicks |-> clicks]
             ELSE IF o.displayed = "no" THEN CloseFrom(overlays, i + 1, clicks)
             ELSE IF o.text = "clicks"
                  THEN [how |-> "close_text",
                        clicks |-> Append(clicks, Click(i, "text", TRUE))]
             ELSE IF o.class = "clicks"
                  THEN [how |-> "close_class",
                        clicks |-> Append(afterText, Click(i, "class", TRUE))]
             ELSE CloseFrom(overlays, i + 1, afterClass)

\* Remove.close_ad_overlay: find_elements raises (caught at line 51), or the
\* overlays it returns are gone through; every exception is caught
close_ad_overlay ==
    /\ clear_pc = "close"
    /\ \/ /\ clear_log' = Append(clear_log, "close_error")
          /\ close_clicks' = <<>>
       \/ \E overlays \in OverlayLists :
             LET r == CloseFrom(overlays, 1, <<>>)
             IN  /\ clear_log' = Append(clear_log, r.how)
                 /\ close_clicks' = r.clicks
    /\ clear_pc' = "remove"
    /\ UNCHANGED <<gpc, gchart, gnested, gattempts, cleared, last_op, last_guarded>>
    /\ GuardFrame

\* Remove.remove_ad_overlay: execute_script, outside any try
remove_ad_overlay ==
    /\ clear_pc = "remove"
    /\ \E ok \in BOOLEAN :
          /\ clear_log' = Append(clear_log, IF ok THEN "remove_done" ELSE "remove_raised")
          /\ clear_pc' = IF ok THEN "wait" ELSE "raised"
    /\ UNCHANGED <<gpc, gchart, gnested, gattempts, close_clicks, cleared, last_op, last_guarded>>
    /\ GuardFrame

\* Remove.wait_for_overlay_to_disappear: the time-out is caught
wait_for_overlay_to_disappear ==
    /\ clear_pc = "wait"
    /\ \E gone \in BOOLEAN :
          clear_log' = Append(clear_log, IF gone THEN "wait_gone" ELSE "wait_timeout")
    /\ clear_pc' = IF gpc = "force" THEN "confirm" ELSE "returned"
    /\ UNCHANGED <<gpc, gchart, gnested, gattempts, close_clicks, cleared, last_op, last_guarded>>
    /\ GuardFrame

\* force_clear_all_obstructions, lines 98-108: the guarded wait for the
\* fixed-position elements
ConfirmNoFixed ==
    /\ clear_pc = "confirm"
    /\ \E gone \in BOOLEAN :
          clear_log' = Append(clear_log, IF gone THEN "confirm_gone" ELSE "confirm_timeout")
    /\ clear_pc' = "returned"
    /\ UNCHANGED <<gpc, gchart, gnested, gattempts, close_clicks, cleared, last_op, last_guarded>>
    /\ GuardFrame

\* the clear ends: by its return, or by the exception of remove_ad_overlay
\* reaching the caller
ClearEnds ==
    /\ clear_pc \in {"returned", "raised"}
    /\ gpc' = AfterClear(gpc, clear_pc)
    /\ cleared' = (cleared \/ clear_pc = "returned")
    /\ clear_pc' = "idle"
    /\ UNCHANGED <<gchart, gnested, gattempts, clear_log, close_clicks, last_op, last_guarded>>
    /\ GuardFrame

\* click, lines 113-125: the tab is looked up; a time-out, a missing nested
\* tab list or a missing link ends the call
ClickFindTab ==
    /\ gpc = "click_find"
    /\ \E found \in BOOLEAN : gpc' = IF found THEN "click_tab" ELSE "click_ret"
    /\ UNCHANGED <<gchart, gnested, gattempts, clear_pc, clear_log, close_clicks, cleared,
                   last_op, last_guarded>>
    /\ GuardFrame

\* click, lines 128-137: scrollIntoView, the wait for clickability, tab.click()
ClickTab ==
    /\ gpc = "click_tab"
    /\ \E outcome \in {"clicked", "not_clickable", "intercepted"} :
          IF outcome = "not_clickable"
          THEN /\ gpc' = "click_ret"
               /\ UNCHANGED <<cleared, last_op, last_guarded>>
          ELSE /\ Interact(IF gnested THEN "nested_tab_click" ELSE "tab_click")
               /\ gpc' = IF outcome = "clicked" THEN "click_post" ELSE "click_ret"
    /\ UNCHANGED <<gchart, gnested, gattempts, clear_pc, clear_log, close_clicks>>
    /\ GuardFrame

\* click has returned: collect_stock_info, lines 169-173 and 205-206
ClickReturns ==
    /\ gpc = "click_ret"
    /\ IF charts[gchart] = "Other Metrics"
       THEN /\ gnested' = TRUE
            /\ gpc' = IF gnested THEN "employees" ELSE "click_pre"
       ELSE /\ gnested' = gnested
            /\ gpc' = "q_pre"
    /\ UNCHANGED <<gchart, gattempts, clear_pc, clear_log, close_clicks, cleared, last_op,
                   last_guarded>>
    /\ GuardFrame

\* quartely, lines 149-161: the selected frequency is read
QuartelyRead ==
    /\ gpc = "q_read"
    /\ \E selected \in {"Quarterly", "Annual", "missing"} :
          gpc' = IF selected = "Annual" THEN "q_select" ELSE "q_ret"
    /\ UNCHANGED <<gchart, gnested, gattempts, clear_pc, clear_log, close_clicks, cleared,
                   last_op, last_guarded>>
    /\ GuardFrame

\* quartely, lines 164-172: dropdown.click() and quarterly_option.click()
QuartelySelect ==
    /\ gpc = "q_select"
    /\ \E outcome \in {"selected", "no_dropdown", "no_option"} :
          IF outcome = "no_dropdown"
          THEN /\ gpc' = "q_ret"
               /\ UNCHANGED <<cleared, last_op, last_guarded>>
          ELSE /\ Interact("frequency_select")
               /\ gpc' = IF outcome = "selected" THEN "q_post" ELSE "q_ret"
    /\ UNCHANGED <<gchart, gnested, gattempts, clear_pc, clear_log, close_clicks>>
    /\ GuardFrame

\* quartely has returned; get_chart begins with scroll_down()
ScrollDown ==
    /\ gpc = "q_ret"
    /\ Interact("page_scroll")
    /\ gpc' = "gc_wait"
    /\ gattempts' = 0
    /\ UNCHANGED <<gchart, gnested, clear_pc, clear_log, close_clicks>>
    /\ GuardFrame

\* get_chart, line 305: the wait for #jqxgrid; its time-out leaves get_chart
\* and collect_stock_info
GridWait ==
    /\ gpc = "gc_wait"
    /\ \E present \in BOOLEAN : gpc' = IF present THEN "gc_seed" ELSE "raised"
    /\ UNCHANGED <<gchart, gnested, gattempts, clear_pc, clear_log, close_clicks, cleared,
                   last_op, last_guarded>>
    /\ GuardFrame

\* get_chart, line 309: the seed scan
SeedScan ==
    /\ gpc = "gc_seed"
    /\ Interact("scan")
    /\ gpc' = "gc_loop"
    /\ UNCHANGED <<gchart, gnested, gattempts, clear_pc, clear_log, close_clicks>>
    /\ GuardFrame

\* get_chart, lines 316-321: the bound is reached or there is no scrollbar
LoopExit ==
    /\ gpc = "gc_loop"
    /\ gpc' = "gc_ret"
    /\ UNCHANGED <<gchart, gnested, gattempts, clear_pc, clear_log, close_clicks, cleared,
                   last_op, last_guarded>>
    /\ GuardFrame

\* get_chart, lines 324-332: drag_scrollbar(100); the loop ends when the
\* thumb has not moved
Drag ==
    /\ gpc = "gc_loop"
    /\ gattempts < max_scroll_attempts
    /\ Interact("drag")
    /\ \E moved \in BOOLEAN : gpc' = IF moved THEN "gc_scan" ELSE "gc_ret"
    /\ UNCHANGED <<gchart, gnested, gattempts, clear_pc, clear_log, close_clicks>>
    /\ GuardFrame

\* get_chart, lines 335-361: the scan after a scroll; the loop ends when it
\* shows no new date column
LoopScan ==
    /\ gpc = "gc_scan"
    /\ Interact("scan")
    /\ \E new \in BOOLEAN :
          /\ gpc' = IF new THEN "gc_loop" ELSE "gc_ret"
          /\ gattempts' = IF new THEN gattempts + 1 ELSE gattempts
    /\ UNCHANGED <<gchart, gnested, clear_pc, clear_log, close_clicks>>
    /\ GuardFrame

\* get_chart has returned; the panel is merged and the loop goes on
NextPanel ==
    /\ gpc = "gc_ret"
    /\ gchart' = gchart + 1
    /\ gpc' = "click_pre"
    /\ UNCHANGED <<gnested, gattempts, clear_pc, clear_log, close_clicks, cleared, last_op,
                   last_guarded>>
    /\ GuardFrame

\* Other Metrics: extract_employee_table_to_df and the end of the loop
ReadEmployees ==
    /\ gpc = "employees"
    /\ gpc' = "finished"
    /\ UNCHANGED <<gchart, gnested, gattempts, clear_pc, clear_log, close_clicks, cleared,
                   last_op, last_guarded>>
    /\ GuardFrame

InitGuard ==
    /\ NewsIdle
    /\ CombineIdle
    /\ RunIdle
    /\ QuarterIdle
    /\ DateIdle
    /\ GetChartIdle
    /\ CollectIdle
    /\ MainIdle
    /\ gpc = "start"
    /\ gchart = 1
    /\ gnested = FALSE
    /\ gattempts = 0
    /\ clear_pc = "idle"
    /\ clear_log = <<>>
    /\ close_clicks = <<>>
    /\ cleared = FALSE
    /\ last_op = "none"
    /\ last_guarded = FALSE

NextGuard ==
    \/ BeginPanels
    \/ force_clear_all_obstructions
    \/ ensure_ads_removed
    \/ close_ad_overlay
    \/ remove_ad_overlay
    \/ wait_for_overlay_to_disappear
    \/ ConfirmNoFixed
    \/ ClearEnds
    \/ ClickFindTab
    \/ ClickTab
    \/ ClickReturns
    \/ QuartelyRead
    \/ QuartelySelect
    \/ ScrollDown
    \/ GridWait
    \/ SeedScan
    \/ LoopExit
    \/ Drag
    \/ LoopScan
    \/ NextPanel
    \/ ReadEmployees

SpecGuard == InitGuard /\ [][NextGuard]_vars

-----------------------------------------------------------------------------
\* main.py: the loop over the stocks, and DayStockData.get

MainFrame == UNCHANGED <<getChartVars, collectVars, guardVars, dateVars, quarterVars, runVars, combineVars, newsVars>>

\* how driver.collect(stock) can end: a CSV with rows is saved, a CSV without
\* any row is saved, or collect_stock_info raises
CollectOutcomes == {"rows", "empty", "raised"}

\* DayStockData.get when the day-to-day CSV is absent: get_start_end_date
\* reads the quarterly CSV and takes iloc[0]['Date'], then get_days downloads
DaysOutcome(quarterly, downloaded) ==
    IF quarterly = "none" THEN "raised"
    ELSE IF quarterly = "empty" THEN "raised"
    ELSE IF downloaded THEN "saved"
    ELSE "raised"

\* lines 38-39: the quarterly CSV is absent, driver.collect(stock) is called
\* outside any try
MainCollect ==
    /\ mpc = "collect"
    /\ quarterly_file[stock_i] = "none"
    /\ \E outcome \in CollectOutcomes :
          IF outcome = "raised"
          THEN mpc' = "aborted" /\ UNCHANGED quarterly_file
          ELSE /\ mpc' = "days"
               /\ quarterly_file' = [quarterly_file EXCEPT ![stock_i] = outcome]
    /\ UNCHANGED <<stock_i, daily_file>>
    /\ MainFrame

\* line 38: the quarterly CSV exists, nothing is collected
MainCollectSkipped ==
    /\ mpc = "collect"
    /\ quarterly_file[stock_i] # "none"
    /\ mpc' = "days"
    /\ UNCHANGED <<stock_i, quarterly_file, daily_file>>
    /\ MainFrame

\* the end of one pass of the loop
AfterStock(i) == IF i = Len(stocks) THEN "quit" ELSE "collect"

\* lines 42-43: the day-to-day CSV is absent, days.get(stock) is called
\* outside any try
MainDays ==
    /\ mpc = "days"
    /\ ~daily_file[stock_i]
    /\ \E downloaded \in BOOLEAN :
          IF DaysOutcome(quarterly_file[stock_i], downloaded) = "raised"
          THEN mpc' = "aborted" /\ UNCHANGED <<stock_i, daily_file>>
          ELSE /\ mpc' = AfterStock(stock_i)
               /\ stock_i' = IF stock_i = Len(stocks) THEN stock_i ELSE stock_i + 1
               /\ daily_file' = [daily_file EXCEPT ![stock_i] = TRUE]
    /\ UNCHANGED quarterly_file
    /\ MainFrame

\* line 42: the day-to-day CSV exists
MainDaysSkipped ==
    /\ mpc = "days"
    /\ daily_file[stock_i]
    /\ mpc' = AfterStock(stock_i)
    /\ stock_i' = IF stock_i = Len(stocks) THEN stock_i ELSE stock_i + 1
    /\ UNCHANGED <<quarterly_file, daily_file>>
    /\ MainFrame

\* lines 46-47: driver.quit() after the loop
MainQuit ==
    /\ mpc = "quit"
    /\ mpc' = "done"
    /\ UNCHANGED <<stock_i, quarterly_file, daily_file>>
    /\ MainFrame

\* the files earlier runs have left in stock/
InitMain ==
    /\ NewsIdle
    /\ CombineIdle
    /\ RunIdle
    /\ QuarterIdle
    /\ DateIdle
    /\ GetChartIdle
    /\ CollectIdle
    /\ GuardIdle
    /\ mpc = "collect"
    /\ stock_i = 1
    /\ quarterly_file \in [DOMAIN stocks -> {"none", "empty", "rows"}]
    /\ daily_file \in [DOMAIN stocks -> BOOLEAN]

NextMain ==
    \/ MainCollect
    \/ MainCollectSkipped
    \/ MainDays
    \/ MainDaysSkipped
    \/ MainQuit

SpecMain == InitMain /\ [][NextMain]_vars

-----------------------------------------------------------------------------
\* Tools.looks_like_date on its own

\* the strings it is tried on: some header texts, and "2023-01-01" with one
\* character put in, replaced or taken out at any place
DateEditChars == {"7", "-", "Q", " ", "\n"}
DateBase == <<"2", "0", "2", "3", "-", "0", "1", "-", "0", "1">>
InsertAt(c, i, ch) == SubSeq(c, 1, i) \o <<ch>> \o SubSeq(c, i + 1, Len(c))
ReplaceAt(c, i, ch) == [c EXCEPT ![i] = ch]
DeleteAt(c, i) == SubSeq(c, 1, i - 1) \o SubSeq(c, i + 1, Len(c))
DateInputs ==
    {DateBase, Chars("2023-1-1"), <<"Q", "1", " ", "2", "0", "2", "3">>, Chars("Revenue"), Chars("")}
        \cup {InsertAt(DateBase, i, ch) : i \in 0..Len(DateBase), ch \in DateEditChars}
        \cup {ReplaceAt(DateBase, i, ch) : i \in DOMAIN DateBase, ch \in DateEditChars}
        \cup {DeleteAt(DateBase, i) : i \in DOMAIN DateBase}

\* lines 21-22
LooksLikeDateCall ==
    /\ ~lld_called
    /\ lld_called' = TRUE
    /\ lld_ret' = MatchesDatePattern(lld_s)
    /\ UNCHANGED lld_s
    /\ DateFrame

InitDate ==
    /\ NewsIdle
    /\ CombineIdle
    /\ RunIdle
    /\ QuarterIdle
    /\ GetChartIdle
    /\ CollectIdle
    /\ GuardIdle
    /\ MainIdle
    /\ lld_s \in DateInputs
    /\ lld_called = FALSE
    /\ lld_ret = FALSE

NextDate == LooksLikeDateCall

SpecDate == InitDate /\ [][NextDate]_vars

-----------------------------------------------------------------------------
\* Tools.quartely called repeatedly on one page

\* consecutive calls of quartely the model makes
MaxQuartelyCalls == 3

\* the options of select.frequency_select
AnnualOption == [value |-> "A", text |-> "Annual"]
QuarterlyOption == [value |-> "Q", text |-> "Quarterly"]
QuarterlyOptionZero == [value |-> "0", text |-> "Quarterly"]
FrequencyOptions == {AnnualOption, QuarterlyOption, QuarterlyOptionZero}

\* line 159: selected_value == "0" or "Quarterly" in selected_text
AlreadyQuarterly(option) == option.value = "0" \/ option.text = "Quarterly"

\* a step of quartely raised: line 178 prints the error and the call returns
QuartelyExcept(step) ==
    /\ qpc' = "returned"
    /\ q_end' = "failed " \o step

\* line 145: quartely is called
QuartelyCall ==
    /\ qpc \in {"start", "returned"}
    /\ qcall < MaxQuartelyCalls
    /\ qcall' = qcall + 1
    /\ qpc' = "clean"
    /\ UNCHANGED <<view, view0, q_opens, q_selects, q_end>>
    /\ QuarterFrame

\* line 147: ensure_ads_removed returns, or remove_ad_overlay raises
QuartelyClearBefore ==
    /\ qpc = "clean"
    /\ \/ qpc' = "find" /\ UNCHANGED q_end
       \/ QuartelyExcept("clear")
    /\ UNCHANGED <<qcall, view, view0, q_opens, q_selects>>
    /\ QuarterFrame

\* lines 149-154: the select is waited for and its option[selected] read; the
\* wait times out or no option carries the attribute
QuartelyReadSelected ==
    /\ qpc = "find"
    /\ \/ qpc' = "decide" /\ UNCHANGED q_end
       \/ QuartelyExcept("read")
    /\ UNCHANGED <<qcall, view, view0, q_opens, q_selects>>
    /\ QuarterFrame

\* lines 159-161: already quarterly, nothing is clicked
QuartelySkip ==
    /\ qpc = "decide"
    /\ AlreadyQuarterly(view)
    /\ qpc' = "returned"
    /\ q_end' = "skipped"
    /\ UNCHANGED <<qcall, view, view0, q_opens, q_selects>>
    /\ QuarterFrame

\* lines 164-167: the dropdown is waited for and clicked; the wait or the
\* click raises
QuartelyOpenDropdown ==
    /\ qpc = "decide"
    /\ ~AlreadyQuarterly(view)
    /\ \/ qpc' = "choose" /\ q_opens' = q_opens + 1 /\ UNCHANGED q_end
       \/ QuartelyExcept("open") /\ UNCHANGED q_opens
    /\ UNCHANGED <<qcall, view, view0, q_selects>>
    /\ QuarterFrame

\* lines 169-172: the Quarterly entry is waited for and clicked, and the page
\* reloads with it selected; the wait or the click raises
QuartelyChoose ==
    /\ qpc = "choose"
    /\ \/ /\ qpc' = "cleanafter"
          /\ q_selects' = q_selects + 1
          /\ view' = QuarterlyOption
          /\ UNCHANGED q_end
       \/ QuartelyExcept("choose") /\ UNCHANGED <<q_selects, view>>
    /\ UNCHANGED <<qcall, view0, q_opens>>
    /\ QuarterFrame

\* lines 174-176: ensure_ads_removed returns, or remove_ad_overlay raises
QuartelyClearAfter ==
    /\ qpc = "cleanafter"
    /\ \/ qpc' = "returned" /\ q_end' = "selected"
       \/ QuartelyExcept("clear after")
    /\ UNCHANGED <<qcall, view, view0, q_opens, q_selects>>
    /\ QuarterFrame

InitQuarter ==
    /\ NewsIdle
    /\ CombineIdle
    /\ RunIdle
    /\ GetChartIdle
    /\ CollectIdle
    /\ GuardIdle
    /\ MainIdle
    /\ DateIdle
    /\ qpc = "start"
    /\ qcall = 0
    /\ view \in FrequencyOptions
    /\ view0 = view
    /\ q_opens = 0
    /\ q_selects = 0
    /\ q_end = "none"

NextQuarter ==
    \/ QuartelyCall
    \/ QuartelyClearBefore
    \/ QuartelyReadSelected
    \/ QuartelySkip
    \/ QuartelyOpenDropdown
    \/ QuartelyChoose
    \/ QuartelyClearAfter

SpecQuarter == InitQuarter /\ [][NextQuarter]_vars

-----------------------------------------------------------------------------
\* One browser session for all stocks: which page each scan reads

\* driver.get("https://www.macrotrends.net"): nobody's page, no tab
HomePage == [owner |-> 0, tab |-> 0]
\* the page of stock s with the tab of self.charts[t] open (t = 0: the page
\* the search result leads to, before any tab is clicked)
StockPage(s, t) == [owner |-> s, tab |-> t]
\* no grid was scanned for the panel
NoScan == [owner |-> -1, tab |-> -1]
EmptyTable == [p \in 1..4 |-> NoScan]

\* #jqxgrid is on the pages of the four financial tabs
HasGrid(b) == b.tab \in 1..4
\* ul#myTabs is on the pages of a stock
HasTabs(b) == b.owner # 0

\* main.py line 38: the quarterly file of the stock exists, nothing is collected
RunSkip ==
    /\ rpc = "loop"
    /\ r_stock <= Len(stocks)
    /\ r_done' = [r_done EXCEPT ![r_stock] = "skipped"]
    /\ r_stock' = r_stock + 1
    /\ UNCHANGED <<rpc, r_chart, browser, r_table, r_saved>>
    /\ RunFrame

\* main.py line 39 and collect_stock_info lines 151-161: self.name is set,
\* search is called, combined_df = None
RunCollect ==
    /\ rpc = "loop"
    /\ r_stock <= Len(stocks)
    /\ rpc' = "search"
    /\ r_table' = EmptyTable
    /\ r_chart' = 1
    /\ UNCHANGED <<r_stock, browser, r_saved, r_done>>
    /\ RunFrame

\* search lines 71-103: the first result is clicked and its page loads
SearchFound ==
    /\ rpc = "search"
    /\ browser' = StockPage(r_stock, 0)
    /\ rpc' = "click"
    /\ UNCHANGED <<r_stock, r_chart, r_table, r_saved, r_done>>
    /\ RunFrame

\* search lines 105-106: a wait or a click raised; the error is printed and
\* search returns with the browser where it was
SearchFailed ==
    /\ rpc = "search"
    /\ rpc' = "click"
    /\ UNCHANGED <<r_stock, r_chart, browser, r_table, r_saved, r_done>>
    /\ RunFrame

\* click lines 110-139: the tab of chart_title is found and clicked
TabSelected ==
    /\ rpc = "click"
    /\ HasTabs(browser)
    /\ browser' = StockPage(browser.owner, r_chart)
    /\ rpc' = IF charts[r_chart] = "Other Metrics" THEN "employees" ELSE "get_chart"
    /\ UNCHANGED <<r_stock, r_chart, r_table, r_saved, r_done>>
    /\ RunFrame

\* click lines 141-142: a step of click raised; the error is printed and
\* click returns with the browser where it was
TabNotSelected ==
    /\ rpc = "click"
    /\ rpc' = IF charts[r_chart] = "Other Metrics" THEN "employees" ELSE "get_chart"
    /\ UNCHANGED <<r_stock, r_chart, browser, r_table, r_saved, r_done>>
    /\ RunFrame

\* lines 206-230: quartely, get_chart on the grid the browser shows, the
\* table merged under the prefix of chart_title
PanelScanned ==
    /\ rpc = "get_chart"
    /\ HasGrid(browser)
    /\ r_table' = [r_table EXCEPT ![r_chart] = browser]
    /\ r_chart' = r_chart + 1
    /\ rpc' = "click"
    /\ UNCHANGED <<r_stock, browser, r_saved, r_done>>
    /\ RunFrame

\* get_chart line 305: no #jqxgrid within 20 s; TimeoutException leaves
\* get_chart, collect_stock_info and the main script
PanelTimeout ==
    /\ rpc = "get_chart"
    /\ ~HasGrid(browser)
    /\ rpc' = "aborted"
    /\ UNCHANGED <<r_stock, r_chart, browser, r_table, r_saved, r_done>>
    /\ RunFrame

\* lines 166-201 and 233-252: the employee table read (its errors are caught
\* inside), the table saved under the name of the stock
RunSave ==
    /\ rpc = "employees"
    /\ r_saved' = [r_saved EXCEPT ![r_stock] = r_table]
    /\ r_done' = [r_done EXCEPT ![r_stock] = "saved"]
    /\ r_stock' = r_stock + 1
    /\ rpc' = "loop"
    /\ UNCHANGED <<r_chart, browser, r_table>>
    /\ RunFrame

\* main.py lines 46-47
RunQuit ==
    /\ rpc = "loop"
    /\ r_stock > Len(stocks)
    /\ rpc' = "quit"
    /\ UNCHANGED <<r_stock, r_chart, browser, r_table, r_saved, r_done>>
    /\ RunFrame

InitRun ==
    /\ NewsIdle
    /\ CombineIdle
    /\ GetChartIdle
    /\ CollectIdle
    /\ GuardIdle
    /\ MainIdle
    /\ DateIdle
    /\ QuarterIdle
    /\ rpc = "loop"
    /\ r_stock = 1
    /\ r_chart = 1
    /\ browser = HomePage
    /\ r_table = EmptyTable
    /\ r_saved = [s \in DOMAIN stocks |-> EmptyTable]
    /\ r_done = [s \in DOMAIN stocks |-> "pending"]

NextRun ==
    \/ RunSkip
    \/ RunCollect
    \/ SearchFound
    \/ SearchFailed
    \/ TabSelected
    \/ TabNotSelected
    \/ PanelScanned
    \/ PanelTimeout
    \/ RunSave
    \/ RunQuit

SpecRun == InitRun /\ [][NextRun]_vars

-----------------------------------------------------------------------------
\* The main script runs on as long as it has a statement to run
SpecMainFair == SpecMain /\ WF_vars(NextMain)

-----------------------------------------------------------------------------
\* StockCombiner.combine run again and again over the same map file

\* longest stock list handed to a StockCombiner
MaxStockList == 2

\* the stock names a stock list is made of
StockNames == Range(stocks)

\* the stock lists StockCombiner is constructed with
StockLists == SeqsUpTo(StockNames, MaxStockList)

\* {} : the map of a StockCombiner just constructed
EmptyMap == [n \in {} |-> 0]

\* max(self.stock_id_map.values(), default=-1)
MaxValue(m) ==
    IF DOMAIN m = {} THEN -1
    ELSE CHOOSE v \in Range(m) : \A w \in Range(m) : v >= w

\* load_id_map with self.max_id left at -1
load_without_max(file) ==
    IF file.exists
    THEN [map |-> file.content, max |-> -1]
    ELSE [map |-> EmptyMap, max |-> -1]

\* load_id_map: the map and max_id it leaves in the object.  json.dump and
\* json.load of a dict of str keys and int values give the dict back.
load_id_map(file) ==
    IF file.exists
    THEN [map |-> file.content, max |-> MaxValue(file.content)]
    ELSE [map |-> EmptyMap, max |-> -1]

\* assign_stock_id: the map, max_id and returned id
assign_stock_id(m, mx, stock_name) ==
    IF stock_name \notin DOMAIN m
    THEN [map |-> [n \in DOMAIN m \cup {stock_name} |->
                      IF n = stock_name THEN mx + 1 ELSE m[n]],
          max |-> mx + 1,
          id  |-> mx + 1]
    ELSE [map |-> m, max |-> mx, id |-> m[stock_name]]

\* combine is called on a StockCombiner: load_id_map(), combined_df = []
CombineStart ==
    /\ kpc = "idle"
    /\ \E stock_list \in StockLists :
          LET l == load_id_map(map_file) IN
          /\ k_stocks' = stock_list
          /\ stock_id_map' = l.map
          /\ max_id' = l.max
          /\ k_loaded' = l.map
    /\ k_i' = 1
    /\ k_combined' = <<>>
    /\ kpc' = "loop"
    /\ UNCHANGED map_file
    /\ CombineFrame

\* the stock's CSV file does not exist: continue
CombineSkip ==
    /\ kpc = "loop"
    /\ k_i <= Len(k_stocks)
    /\ k_i' = k_i + 1
    /\ UNCHANGED <<kpc, k_stocks, stock_id_map, max_id, k_combined, map_file, k_loaded>>
    /\ CombineFrame

\* the stock's CSV file is read, gets its stock_id and is appended
CombineAppend ==
    /\ kpc = "loop"
    /\ k_i <= Len(k_stocks)
    /\ LET a == assign_stock_id(stock_id_map, max_id, k_stocks[k_i]) IN
          /\ stock_id_map' = a.map
          /\ max_id' = a.max
          /\ k_combined' = Append(k_combined, a.id)
    /\ k_i' = k_i + 1
    /\ UNCHANGED <<kpc, k_stocks, map_file, k_loaded>>
    /\ CombineFrame

\* pd.read_csv raises (an empty or unreadable file): combine is left
CombineReadRaises ==
    /\ kpc = "loop"
    /\ k_i <= Len(k_stocks)
    /\ kpc' = "idle"
    /\ UNCHANGED <<k_stocks, k_i, stock_id_map, max_id, k_combined, map_file, k_loaded>>
    /\ CombineFrame

\* if combined_df: concat, to_csv, save_id_map()
CombineSave ==
    /\ kpc = "loop"
    /\ k_i > Len(k_stocks)
    /\ k_combined # <<>>
    /\ map_file' = [exists |-> TRUE, content |-> stock_id_map]
    /\ kpc' = "idle"
    /\ UNCHANGED <<k_stocks, k_i, stock_id_map, max_id, k_combined, k_loaded>>
    /\ CombineFrame

\* final_df.to_csv raises (the output path cannot be written): no save
CombineWriteRaises ==
    /\ kpc = "loop"
    /\ k_i > Len(k_stocks)
    /\ k_combined # <<>>
    /\ kpc' = "idle"
    /\ UNCHANGED <<k_stocks, k_i, stock_id_map, max_id, k_combined, map_file, k_loaded>>
    /\ CombineFrame

\* else: "No valid stock data found to combine."
CombineNothing ==
    /\ kpc = "loop"
    /\ k_i > Len(k_stocks)
    /\ k_combined = <<>>
    /\ kpc' = "idle"
    /\ UNCHANGED <<k_stocks, k_i, stock_id_map, max_id, k_combined, map_file, k_loaded>>
    /\ CombineFrame

InitCombine ==
    /\ NewsIdle
    /\ GetChartIdle
    /\ CollectIdle
    /\ GuardIdle
    /\ MainIdle
    /\ DateIdle
    /\ QuarterIdle
    /\ RunIdle
    /\ CombineIdle

NextCombine ==
    \/ CombineStart
    \/ CombineSkip
    \/ CombineAppend
    \/ CombineReadRaises
    \/ CombineSave
    \/ CombineWriteRaises
    \/ CombineNothing

SpecCombine == InitCombine /\ [][NextCombine]_vars

-----------------------------------------------------------------------------
\* NewsSentiment.analyze

\* most articles one fetch returns (max_articles)
MaxArticles == 3

\* self.sentiment_scores, in the order the dict is written
SentimentOrder ==
    <<"Strongly Negative", "Negative", "Neutral", "Positive", "Strongly Positive">>

sentiment_scores(k) ==
    CASE k = "Strongly Negative" -> -2
      [] k = "Negative" -> -1
      [] k = "Neutral" -> 0
      [] k = "Positive" -> 1
      [] k = "Strongly Positive" -> 2

\* what _classify_sentiment is given for one article: whether the text is
\* blank, FinBERT's label and confidence (in hundredths), and the combined
\* VADER score (in hundredths)
ArticleReadings ==
    [blank : BOOLEAN,
     finbert : {"Negative", "Neutral", "Positive"},
     confidence : {80, 81},
     combined_vader : {-70, -20, 0, 20, 70}]

\* _classify_sentiment
classify_sentiment(a) ==
    IF a.blank THEN "Neutral"
    ELSE IF a.confidence > 80 THEN a.finbert
    ELSE IF a.combined_vader <= -70 THEN "Strongly Negative"
    ELSE IF a.combined_vader <= -20 THEN "Negative"
    ELSE IF a.combined_vader >= 70 THEN "Strongly Positive"
    ELSE IF a.combined_vader >= 20 THEN "Positive"
    ELSE "Neutral"

\* round(num / den) of Python 3 for den > 0: to the nearest integer, a half
\* to the even neighbour
PyRound(num, den) ==
    LET q == num \div den
        r == num % den
    IN  IF 2 * r < den THEN q
        ELSE IF 2 * r > den THEN q + 1
        ELSE IF q % 2 = 0 THEN q ELSE q + 1

\* max(sentiment_counts.items(), key=lambda x: x[1])[0]: the first label, in
\* the order of the dict, that no label beats
most_common(counts) ==
    LET i == CHOOSE j \in 1..Len(SentimentOrder) :
                 /\ \A k \in 1..Len(SentimentOrder) :
                       counts[SentimentOrder[j]] >= counts[SentimentOrder[k]]
                 /\ \A k \in 1..(j - 1) :
                       counts[SentimentOrder[k]] < counts[SentimentOrder[j]]
    IN  SentimentOrder[i]

\* the last lines of analyze: avg, and the most frequent label when avg is 0
analyze_result(total, n, counts) ==
    LET avg == IF n > 0 THEN PyRound(total, n) ELSE 0 IN
    IF avg = 0 THEN sentiment_scores(most_common(counts)) ELSE avg

\* analyze is called: _fetch_articles returns up to max_articles entries
AnalyzeFetch ==
    /\ npc = "idle"
    /\ \E n \in 0..MaxArticles : n_left' = n
    /\ total_score' = 0
    /\ count' = 0
    /\ sentiment_counts' = [k \in Range(SentimentOrder) |-> 0]
    /\ npc' = "loop"
    /\ UNCHANGED n_avg
    /\ NewsFrame

\* one round of the loop over the articles
AnalyzeArticle ==
    /\ npc = "loop"
    /\ n_left > 0
    /\ \E a \in ArticleReadings :
          LET sentiment == classify_sentiment(a) IN
          /\ sentiment_counts' =
                 [sentiment_counts EXCEPT ![sentiment] = @ + 1]
          /\ total_score' = total_score + sentiment_scores(sentiment)
    /\ count' = count + 1
    /\ n_left' = n_left - 1
    /\ UNCHANGED <<npc, n_avg>>
    /\ NewsFrame

\* after the loop: return avg
AnalyzeReturn ==
    /\ npc = "loop"
    /\ n_left = 0
    /\ n_avg' = analyze_result(total_score, count, sentiment_counts)
    /\ npc' = "returned"
    /\ UNCHANGED <<n_left, total_score, count, sentiment_counts>>
    /\ NewsFrame

InitNews ==
    /\ GetChartIdle
    /\ CollectIdle
    /\ GuardIdle
    /\ MainIdle
    /\ DateIdle
    /\ QuarterIdle
    /\ RunIdle
    /\ CombineIdle
    /\ NewsIdle

NextNews ==
    \/ AnalyzeFetch
    \/ AnalyzeArticle
    \/ AnalyzeReturn

SpecNews == InitNews /\ [][NextNews]_vars

-----------------------------------------------------------------------------
\* C1: get_chart makes at most max_scroll_attempts calls of drag_scrollbar,
\* whatever the thumb positions and the scans are.
C1_DragsBounded == drags <= max_scroll_attempts

\* the bound is reached: the loop ended by its own counter
C1_Witness == pc = "done" /\ drags = max_scroll_attempts /\ attempts = max_scroll_attempts

\* C2: the accumulated header list never holds the same string twice, at the
\* seed and after every append.
C2_HeadersUnique ==
    \A i, j \in DOMAIN all_headers : i # j => all_headers[i] # all_headers[j]

\* C3: after the seed and after every iteration (before the final pass too)
\* every accumulated row is exactly as long as the accumulated header list.
C3_RowWidth ==
    pc \in {"loop", "scan", "normalize", "done"} =>
        \A i \in DOMAIN all_data : Len(all_data[i]) = Len(all_headers)

\* C4: in the returned table the cell of row i under the header at position j
\* is the cell row i had under that header in the snapshot that first showed
\* it, or the empty string when that snapshot had no such cell.
C4_CellsFromFirstSeen ==
    pc = "done" =>
        \A i \in DOMAIN all_data : \A j \in DOMAIN all_headers :
            /\ j <= Len(all_data[i])
            /\ all_data[i][j] =
                   (IF i <= Len(first_seen[j]) THEN first_seen[j][i] ELSE "")

-----------------------------------------------------------------------------
\* Claims about collect_stock_info (checked under SpecCollect)

\* the Date cells of the running table
DatesOf(df) == [i \in DOMAIN df.rows |-> df.rows[i][1]]

\* C5: a failure inside one ordinary panel never ends collect_stock_info by
\* an exception; the later panels are still processed.
C5_NoAbort == cpc # "raised"

\* C6: the dates of the saved table are exactly the dates the merged
\* ordinary panels contributed: none lost, none added.
C6_DatesAreUnion ==
    cpc = "saved" =>
        Range(DatesOf(combined_df)) = {to_datetime(Str(d)) : d \in contributed}

\* the employee counts the employee table lists for year y
CountsOf(y) == {emp_df[i].Employees : i \in {j \in DOMAIN emp_df : emp_df[j].Year = y}}

C8_DateUnique ==
    ~combined_df.is_none =>
        \A i, j \in DOMAIN combined_df.rows :
            i # j => combined_df.rows[i][1] # combined_df.rows[j][1]

-----------------------------------------------------------------------------
\* Claims about the overlay clears (checked under SpecGuard)

C10_ClearNeverRaises == clear_pc # "raised"

-----------------------------------------------------------------------------
\* Further claims about get_chart (checked under Spec)

\* C11: an iteration that reads no thumb position before the drag, or reads
\* none or one not greater than x_before after it, leaves the loop; after the
\* loop no scan and no drag is made, nothing is raised, and what is returned
\* is the accumulated table: the same headers, the same rows, each cell kept
\* at its place.
C11_StallStops ==
    [][ /\ (pc = "loop" /\ (x_before' = None \/ x_after' = None \/ x_after' <= x_before'))
            => pc' = "normalize"
        /\ pc = "scan" => (x_before # None /\ x_after # None /\ x_after > x_before)
        /\ pc = "normalize" =>
            /\ pc' = "done"
            /\ scans' = scans
            /\ drags' = drags
            /\ all_headers' = all_headers
            /\ Len(all_data') = Len(all_data)
            /\ \A i \in DOMAIN all_data :
                  \A j \in 1..Len(all_headers) :
                      j <= Len(all_data[i]) => all_data'[i][j] = all_data[i][j]
      ]_vars

\* one iteration went through, the second drag did not move the thumb, and
\* the loop is left with one scan less than a moving drag would give
C11_Witness ==
    /\ pc = "normalize"
    /\ attempts = 1
    /\ drags = 2
    /\ scans = 2
    /\ x_before # None
    /\ x_after = x_before

\* C12: when the scan made after a movement shows no date-like header that
\* is not accumulated yet, the loop is left and the scan changes neither
\* all_headers nor any row of all_data.
C12_NothingNewChangesNothing ==
    [][ (/\ pc = "scan"
         /\ \A k \in DOMAIN new_headers' :
               ~looks_like_date(new_headers'[k]) \/ new_headers'[k] \in Range(all_headers))
        => (/\ pc' = "normalize"
            /\ all_headers' = all_headers
            /\ all_data' = all_data
            /\ attempts' = attempts)
      ]_vars

\* after one appended column a second scan showed headers, none of them new,
\* and the loop was left with the table as it was
C12_Witness ==
    /\ pc = "normalize"
    /\ attempts = 1
    /\ scans = 3
    /\ new_headers # <<>>
    /\ \A k \in DOMAIN new_headers : new_headers[k] \in Range(all_headers)

\* C13: every header appended after the seed scan is date-like and comes
\* from the scan just made; the headers accumulated before stay as they are.
C13_OnlyDatesAppended ==
    [][ pc # "start" =>
           /\ Len(all_headers') >= Len(all_headers)
           /\ SubSeq(all_headers', 1, Len(all_headers)) = all_headers
           /\ \A j \in (Len(all_headers) + 1)..Len(all_headers') :
                 /\ looks_like_date(all_headers'[j])
                 /\ all_headers'[j] \in Range(new_headers')
      ]_vars

\* a scan after the seed showed the header Metric for the first time next to
\* a new date; the date was appended, Metric was not
C13_Witness ==
    /\ pc = "loop"
    /\ attempts = 1
    /\ "Metric" \in Range(new_headers)
    /\ "Metric" \notin Range(all_headers)
    /\ Len(all_headers) >= 1

\* C14: no step of get_chart, the final pass included, shortens a row or
\* changes a cell a row already holds.
C14_RowsNeverShortened ==
    [][ pc # "start" =>
           \A i \in DOMAIN all_data :
               /\ i \in DOMAIN all_data'
               /\ Len(all_data'[i]) >= Len(all_data[i])
               /\ SubSeq(all_data'[i], 1, Len(all_data[i])) = all_data[i]
      ]_vars

-----------------------------------------------------------------------------
\* Further claims about collect_stock_info (checked under SpecCollect)

\* C15: a panel whose grid shows no row does not fail, and merging its table
\* leaves combined_df as it was.
C15_ZeroRowPanelIsNoOp ==
    [][ (cpc = "extract" /\ page.grid /\ page.rows = <<>>)
        => (cpc' # "raised" /\ combined_df' = combined_df) ]_vars

\* no panel has yielded a metric column: there is no table, or the table has
\* no column besides Date and Employees
NoPanelData ==
    combined_df.is_none \/ Range(combined_df.cols) \subseteq {"Date", "Employees"}

\* C16: when no panel yields data, collect_stock_info ends normally without a
\* table: nothing is raised and nothing is saved.
C16_NoDataEndsAbsent ==
    (cpc \in {"raised", "saved", "nodata"} /\ NoPanelData) => cpc = "nodata"

-----------------------------------------------------------------------------
\* Claims about the main script (checked under SpecMain)

\* C17: when collecting a stock leaves no quarterly CSV for it, the loop is
\* not ended: neither the collect step nor the day-to-day step of that stock
\* aborts the run.
C17_LoopProceeds ==
    [][ (mpc \in {"collect", "days"} /\ quarterly_file'[stock_i] = "none")
        => mpc' # "aborted" ]_vars

\* C18: every column an ordinary panel adds to the unified table is named
\* slug_label, the slug being the panel's name lower-cased with underscores
\* for spaces, and is a name no earlier panel contributed, even though
\* every panel shows the same metric labels.
C18_Slugs ==
    <<"financials", "balance_sheet", "cash_flow_statement", "key_financial_ratios">>
C18_Labels == {"Revenue", "Margin"}
C18_PanelColumnsNamespaced ==
    [][ (cpc = "extract" /\ cpc' = "select" /\ chart_i' = chart_i + 1 /\ chart_i <= 4) =>
            LET old == IF combined_df.is_none THEN <<"Date">> ELSE combined_df.cols
                new == combined_df'.cols
            IN  /\ Len(new) >= Len(old)
                /\ SubSeq(new, 1, Len(old)) = old
                /\ \A j \in (Len(old) + 1)..Len(new) :
                      /\ \E l \in C18_Labels : new[j] = C18_Slugs[chart_i] \o "_" \o l
                      /\ new[j] \notin Range(old)
                /\ \A i, j \in DOMAIN new : i # j => new[i] # new[j] ]_vars
\* two panels showed the same label and both columns are in the saved table
C18_Witness ==
    /\ cpc = "saved"
    /\ {"financials_Revenue", "balance_sheet_Revenue",
        "cash_flow_statement_Revenue", "key_financial_ratios_Margin"}
           \subseteq Range(combined_df.cols)

\* C19: the table handed to to_csv is in ascending Date order: of two
\* consecutive rows the first one's Date is not later than the second
\* one's, whatever order the panels showed their date columns in.
C19_SavedAscending ==
    cpc = "saved" =>
        \A i \in 1..(Len(combined_df.rows) - 1) :
            LET d1 == combined_df.rows[i][1]
                d2 == combined_df.rows[i + 1][1]
            IN  (d1.k = "date" /\ d2.k = "date") => d1.n <= d2.n
\* a saved table of several dates whose last panel showed the later date
\* left of the earlier one
C19_Witness ==
    /\ cpc = "saved"
    /\ Len(combined_df.rows) >= 2
    /\ \A i \in DOMAIN combined_df.rows : combined_df.rows[i][1].k = "date"
    /\ page.headers = <<"Metric", "2021-09-01", "2021-03-01">>

\* C20: in the saved table every cell outside Date is a number. Under a
\* date a panel showed, its Revenue and Margin cells are the cleaned values
\* of the grid: "12%" is 12, "-" is 0, "$1,234.56" is 1234.56, "N/A" (not
\* coercible) is 0; under a date the panel did not show (missing after the
\* outer join) both are 0. An employee count is the number read or 0.
C20_Slugs ==
    {"financials", "balance_sheet", "cash_flow_statement", "key_financial_ratios"}
C20_Cell(row, name) ==
    row[CHOOSE j \in DOMAIN combined_df.cols : combined_df.cols[j] = name]
\* the Revenue and Margin cells a panel gives the date n when it showed it
C20_Shown(n) ==
    CASE n = 20200901 -> <<[k |-> "num", s |-> "", n |-> 12], [k |-> "num", s |-> "", n |-> 0]>>
      [] n = 20210301 -> <<[k |-> "num", s |-> "", n |-> 0], [k |-> "num", s |-> "", n |-> 100]>>
      [] n = 20210901 -> <<[k |-> "num", s |-> "56", n |-> 1234], [k |-> "num", s |-> "", n |-> 100]>>
C20_Missing == <<[k |-> "num", s |-> "", n |-> 0], [k |-> "num", s |-> "", n |-> 0]>>
C20_CleaningPolicy ==
    cpc = "saved" =>
        \A i \in DOMAIN combined_df.rows :
            LET row == combined_df.rows[i]
            IN  /\ \A j \in 2..Len(row) : row[j].k = "num"
                /\ row[1].k = "date"
                /\ \A p \in C20_Slugs :
                      (p \o "_Revenue") \in Range(combined_df.cols) =>
                          /\ (p \o "_Margin") \in Range(combined_df.cols)
                          /\ <<C20_Cell(row, p \o "_Revenue"), C20_Cell(row, p \o "_Margin")>>
                                 \in {C20_Shown(row[1].n), C20_Missing}
                /\ "Employees" \in Range(combined_df.cols) =>
                      C20_Cell(row, "Employees").n \in {0, 500}
\* a saved row of 2021-09-01 with 1234.56 from one panel, zeros for a panel
\* that did not show the date and 0 for the employee count "N/A", beside a
\* row of 2021-03-01 whose "-" became 0
C20_Witness ==
    /\ cpc = "saved"
    /\ {"financials_Revenue", "balance_sheet_Revenue", "Employees"}
           \subseteq Range(combined_df.cols)
    /\ \E e \in DOMAIN emp_df : emp_df[e].Year = 2021 /\ emp_df[e].Employees = 0
    /\ \E i \in DOMAIN combined_df.rows :
          LET row == combined_df.rows[i]
          IN  /\ row[1].n = 20210901
              /\ C20_Cell(row, "financials_Revenue") = [k |-> "num", s |-> "56", n |-> 1234]
              /\ C20_Cell(row, "balance_sheet_Revenue").n = 0
              /\ C20_Cell(row, "balance_sheet_Margin").n = 0
              /\ C20_Cell(row, "Employees").n = 0
    /\ \E i \in DOMAIN combined_df.rows :
          LET row == combined_df.rows[i]
          IN  /\ row[1].n = 20210301
              /\ C20_Cell(row, "balance_sheet_Revenue").n = 0
              /\ C20_Cell(row, "balance_sheet_Margin").n = 100

C22_QuarterlyIdempotent ==
    /\ view0.text = "Quarterly" => (q_opens = 0 /\ q_selects = 0)
    /\ q_selects <= 1
    /\ (qpc = "returned" /\ qcall >= 2) => view.text = "Quarterly"

\* C23: the table saved for a stock is built only from grids scanned on the
\* page reached by that stock's own search; nothing of a stock processed
\* before it, nor the page left open when its search failed, is in it.
C23_OwnPageOnly ==
    \A s \in DOMAIN stocks :
        r_done[s] = "saved" =>
            \A p \in 1..4 : r_saved[s][p].owner \in {-1, s}

\* C25: what is stored under the prefix of panel P was scanned from the grid
\* of P's own tab; when the click on P's tab fails, the grid of the panel
\* selected before is not recorded under P's prefix.
C25_PanelProvenance ==
    \A p \in 1..4 : r_table[p] # NoScan => r_table[p].tab = p

\* C24: an overlay clear runs its steps in the order graceful close,
\* forcible removal, bounded wait; the removal runs whether or not the close
\* clicked anything, so in particular when it clicked nothing; and the close
\* makes at most one click that works, going through the overlays in order
\* and trying the text match before the class match.
C24_ClearOrder ==
    /\ Len(clear_log) >= 1 =>
          clear_log[1] \in {"close_none", "close_text", "close_class", "close_error"}
    /\ Len(clear_log) >= 2 => clear_log[2] \in {"remove_done", "remove_raised"}
    /\ Len(clear_log) >= 3 => clear_log[3] \in {"wait_gone", "wait_timeout"}
    /\ Len(clear_log) >= 4 =>
          (Len(clear_log) = 4 /\ clear_log[4] \in {"confirm_gone", "confirm_timeout"})
    /\ (Len(clear_log) >= 1 /\ clear_pc # "remove") => Len(clear_log) >= 2
    /\ (Len(clear_log) >= 2 /\ clear_log[2] = "remove_done" /\ clear_pc # "wait") =>
          Len(clear_log) >= 3
    /\ \A i \in DOMAIN close_clicks : close_clicks[i].ok => i = Len(close_clicks)
    /\ \A i, j \in DOMAIN close_clicks :
          i < j =>
              /\ close_clicks[i].overlay <= close_clicks[j].overlay
              /\ close_clicks[i].overlay = close_clicks[j].overlay =>
                    (close_clicks[i].by = "text" /\ close_clicks[j].by = "class")
    /\ (Len(clear_log) >= 1 /\ clear_log[1] \in {"close_none", "close_error"}) =>
          \A i \in DOMAIN close_clicks : ~close_clicks[i].ok
    /\ (Len(clear_log) >= 1 /\ clear_log[1] \in {"close_text", "close_class"}) =>
          /\ close_clicks # <<>>
          /\ close_clicks[Len(close_clicks)].ok
          /\ close_clicks[Len(close_clicks)].by
                 = (IF clear_log[1] = "close_text" THEN "text" ELSE "class")
\* a clear whose close tried the buttons of two overlays and clicked
\* nothing, and whose removal and wait ran all the same
C24_Witness ==
    /\ clear_pc = "returned"
    /\ clear_log = <<"close_none", "remove_done", "wait_gone">>
    /\ Len(close_clicks) >= 3
    /\ \A i \in DOMAIN close_clicks : ~close_clicks[i].ok

\* C26: when get_chart returns, the date-like headers among the accumulated
\* headers are, in their order and each taken once, exactly the date-like
\* headers of all the snapshots of the run in the order they were first seen.
C26_AllSeenDatesKept ==
    pc = "done" => AddSeen(<<>>, all_headers) = seen_dates
\* a run whose seed showed no date, whose second scan showed two dates and
\* whose third scan showed nothing new
C26_Witness ==
    /\ pc = "done"
    /\ scans = 3
    /\ attempts = 1
    /\ Len(seen_dates) = 2
    /\ \A j \in DOMAIN first_seen : j <= 1 \/ all_headers[j] \in Range(seen_dates)
    /\ ~looks_like_date(all_headers[1])

\* C27: when the employee table read for Other Metrics is empty (no row, an
\* exception while reading, or a row whose year or count is no integer), the
\* step leaves the unified table as it was: same rows, same columns, no
\* Employees column.
C27_EmptyEmployeesNoChange ==
    [][ (cpc = "select" /\ chart_i = 5 /\ cpc' = "finish" /\ emp_df' = <<>>) =>
            /\ combined_df' = combined_df
            /\ "Employees" \notin Range(combined_df'.cols) ]_vars
\* Other Metrics has run with an empty employee table on a unified table of
\* two dates and two panels
C27_Witness ==
    /\ cpc = "finish"
    /\ chart_i = 6
    /\ emp_df = <<>>
    /\ ~combined_df.is_none
    /\ Len(combined_df.rows) >= 2
    /\ Len(combined_df.cols) >= 5
    /\ "Employees" \notin Range(combined_df.cols)

C29_Injective(m) == \A a, b \in DOMAIN m : a # b => m[a] # m[b]

C29_Kept(old, new) ==
    \A n \in DOMAIN old : n \in DOMAIN new /\ new[n] = old[n]

C29_IdsInjectiveAndStable ==
    /\ [](/\ C29_Injective(map_file.content)
          /\ C29_Injective(stock_id_map)
          /\ kpc = "loop" => C29_Kept(k_loaded, stock_id_map))
    /\ [][C29_Kept(map_file.content, map_file'.content)]_vars

\* C29 witness: a run that loaded a saved map with a name in it has given a
\* new name an id and saved the larger map
C29_Witness ==
    /\ kpc = "idle"
    /\ DOMAIN k_loaded # {}
    /\ map_file.content = stock_id_map
    /\ DOMAIN map_file.content # DOMAIN k_loaded

\* C30: analyze returns 0 (neutral) when no article was fetched (count = 0),
\* and in every case the value it returns is an integer from -2 to 2.
C30_NeutralWithoutArticles ==
    npc = "returned" => /\ n_avg \in -2..2
                        /\ count = 0 => n_avg = 0

====
